---- MODULE Spec2Model ----
(***************************************************************************)
(* Model of the image hosting service:                                     *)
(*   - db_pool.py : DatabasePool over psycopg2's ThreadedConnectionPool    *)
(*   - db.py / admin_db.py : data-access functions                         *)
(*   - db.py / init_db.py : schema creation and ensure_schema              *)
(*   - app.py : login_required, login, upload and the delete routes        *)
(*   - celery_app.py : the retrying tasks                                  *)
(* The specifications share the module's variables; each one moves its own *)
(* part of the state and leaves the rest as its Init sets it: Spec,        *)
(* SpecReuse and SpecProbe (the pool), SpecData, SpecSchema, SpecExpiry,   *)
(* SpecSweep, SpecCascade, SpecLog, SpecFilters, SpecPages, SpecQueries    *)
(* (the store and the data-access calls), SpecLogin, SpecUpload,           *)
(* SpecDelete, SpecWrites (the routes) and SpecTasks (the celery tasks).   *)
(***************************************************************************)
EXTENDS Integers, Sequences, FiniteSets, TLC

(***************************************************************************)
(* Bounds of the model                                                     *)
(***************************************************************************)
NumThreads == 2
MaxPoolSize == 1
MaxLost == 1
NumCallers == 2
MaxRuns == 2
MaxTicks == 2
MaxRows == 2
MaxLen == 3
MaxImages == 3
MaxPerPage == 3
MaxPage == 2
MaxQueries == 2
NumBrowsers == 2
MaxRequests == 1
MaxLog == 2
NumTasks == 2

Threads == 1..NumThreads
Callers == 1..NumCallers
ConnIds == 1..(MaxPoolSize + NumThreads)
None == 0

VARIABLES
    DB_POOL_MIN,    \* db_pool.py:35, read from the environment
    DB_POOL_MAX,    \* db_pool.py:36
    pool_idle,      \* ThreadedConnectionPool._pool: the idle connections (a list)
    pool_used,      \* ThreadedConnectionPool._used: the checked-out connections
    closed,         \* conn.closed of every connection object
    stats,          \* DatabasePool._stats
    pc,             \* where each thread stands in get_connection / connect_db
    conn,           \* the local variable conn of each thread
    tmp,            \* the value a thread has loaded for a `+= 1` / `-= 1`
    raised,         \* the exception in flight in each thread's get_connection
    lost            \* connections the store or the network has ended so far

poolVars == <<DB_POOL_MIN, DB_POOL_MAX, pool_idle, pool_used, closed, stats,
              pc, conn, tmp, raised, lost>>

VARIABLES
    ADMIN_PASSWORD, \* os.getenv('ADMIN_PASSWORD'): a password or Unset
    users,          \* the rows of table users, in insertion order
    images,         \* the rows of table images
    next_image_id,  \* the sequence behind images.id (SERIAL)
    statistics,     \* the rows of table statistics, in insertion order
    open_conns,     \* connections psycopg2.connect has opened and nobody closed
    dpc,            \* where each caller stands in its data-access call
    call,           \* the function a caller runs and its arguments
    result          \* what the call gave its caller: a return value or an exception

dataVars == <<ADMIN_PASSWORD, users, images, next_image_id, statistics, open_conns,
              dpc, call, result>>

VARIABLES
    CREATE_ADMIN_USER,  \* os.getenv('CREATE_ADMIN_USER') == 'true'
    tables,             \* the tables that exist in the database
    images_columns,     \* which of user_email, expiration_date table images has
    images_fk,          \* ON DELETE action of the foreign key on images.user_email
    statistics_ddl,     \* the file whose CREATE TABLE made table statistics
    spc,                \* where ensure_schema stands
    runs,               \* runs of ensure_schema and of init_db.main so far
    es_result,          \* what the last ensure_schema returned
    faulted,            \* the store has failed a connect or a statement
    mutating,           \* the kinds of mutating statement this run of ensure_schema
                        \* has executed: CREATE, ALTER, INSERT
    step_failed,        \* a step of this run of ensure_schema has failed
    start,              \* what this run of ensure_schema found when it began
    fresh               \* the database was empty and only ensure_schema, without
                        \* a failure, has worked on it

schemaVars == <<CREATE_ADMIN_USER, tables, images_columns, images_fk, statistics_ddl,
                spc, runs, es_result, faulted, mutating, step_failed, start, fresh>>

VARIABLES
    removed,            \* the emails whose users row has been deleted in the store
    clock,              \* datetime.now(), in seconds
    ticks,              \* how often the clock has been seen to advance
    files,              \* the ids of the images rows whose file is on the disk
    sweep               \* the expiration sweep: where it stands, the rows it was
                        \* given, the row it handles, the rows it failed on

envVars == <<removed, clock, ticks, files, sweep>>

VARIABLES
    query,              \* the filters and the page the statistics view asks for
    found               \* what get_statistics_count and
                        \* get_statistics_with_filters have given it

queryVars == <<query, found>>

VARIABLES
    pager,              \* a client that reads a list page after page: the
                        \* function, its arguments, the pages it has been given
    issued,             \* the queries handed to cur.execute: the function, the
                        \* branches taken, the text and the bound parameters
    session,            \* flask session of each browser: its user_email, or
                        \* NULL when it holds none
    req,                \* the request each browser has in the application: the
                        \* route, where its handler stands, its local variables
    disk,               \* the files under UPLOAD_FOLDER: <<folder, filename>>
    task,               \* the celery tasks: name, state, self.request.retries,
                        \* executions so far, the countdowns of its retries
    broker,             \* log_statistics_async messages no worker has taken yet
    pool_closed,        \* ThreadedConnectionPool.closed: closeall() has run
    probe               \* the monitoring call of each thread: health_check or
                        \* get_pool_metrics, what failed in it, what it returned

appVars == <<pager, issued, session, req, disk, task, broker, pool_closed, probe>>
routeVars == <<session, req, disk>>
taskVars == <<task, broker>>
probeVars == <<pool_closed, probe>>

nonPoolVars == <<dataVars, schemaVars, envVars, queryVars, appVars>>
nonDataVars == <<poolVars, schemaVars, envVars, queryVars, appVars>>

Range(s) == {s[i] : i \in DOMAIN s}

\* the orders in which a SELECT without ORDER BY can give the rows
Orders(rows) ==
    {f \in [1..Cardinality(rows) -> rows] : \A i, j \in DOMAIN f : f[i] = f[j] => i = j}

(***************************************************************************)
(* DatabasePool._initialize_pool: the limits handed to the library.        *)
(***************************************************************************)
pool_minconn == DB_POOL_MIN

pool_maxconn_sum == DB_POOL_MAX + DB_POOL_MIN

pool_maxconn == DB_POOL_MAX

(***************************************************************************)
(* The library pool (psycopg2.pool.ThreadedConnectionPool), whose getconn  *)
(* and putconn each run under the library's own lock, so each is one step. *)
(***************************************************************************)
IsFree(c) ==
    /\ c \notin Range(pool_idle)
    /\ c \notin pool_used
    /\ \A t \in Threads : conn[t] # c

\* The connection object a new connect yields: one no thread still refers to.
NewConn == CHOOSE c \in ConnIds : IsFree(c) /\ \A d \in ConnIds : IsFree(d) => c <= d

idle_after_peek(s) == s

\* self._pool.pop(): the list without the connection handed out
idle_after_pop(s) == SubSeq(s, 1, Len(s) - 1)

\* getconn(): PoolError on a pool that closeall() has closed; else
\* an idle connection if there is one; PoolError when none is idle
\* and maxconn are checked out; else a new connection, which the store may
\* refuse (connectOk = FALSE: OperationalError).
getconn(connectOk) ==
    IF pool_closed
    THEN [kind |-> "PoolError", c |-> None, idle |-> pool_idle, used |-> pool_used]
    ELSE IF pool_idle # <<>>
    THEN [kind |-> "conn", c |-> pool_idle[Len(pool_idle)],
          idle |-> idle_after_pop(pool_idle),
          used |-> pool_used \cup {pool_idle[Len(pool_idle)]}]
    ELSE IF Cardinality(pool_used) = pool_maxconn
    THEN [kind |-> "PoolError", c |-> None, idle |-> pool_idle, used |-> pool_used]
    ELSE IF connectOk /\ \E c \in ConnIds : IsFree(c)
    THEN [kind |-> "conn", c |-> NewConn, idle |-> pool_idle,
          used |-> pool_used \cup {NewConn}]
    ELSE [kind |-> "Exception", c |-> None, idle |-> pool_idle, used |-> pool_used]

\* putconn(c, close): PoolError on a closed pool and for a connection the pool
\* has not handed out;
\* else the connection goes back to the idle list when fewer than minconn are
\* idle, it is open and close is not asked for, and is closed and dropped
\* otherwise; in both cases it leaves the checked-out set.  The rollback the
\* library runs on a connection it puts back is taken to succeed.
putconn(c, close) ==
    IF pool_closed \/ c \notin pool_used
    THEN [kind |-> "PoolError", idle |-> pool_idle, used |-> pool_used, closes |-> FALSE]
    ELSE IF Len(pool_idle) < pool_minconn /\ ~close /\ ~closed[c]
    THEN [kind |-> "ok", idle |-> Append(pool_idle, c), used |-> pool_used \ {c},
          closes |-> FALSE]
    ELSE [kind |-> "ok", idle |-> pool_idle, used |-> pool_used \ {c}, closes |-> TRUE]

(***************************************************************************)
(* Init: the state after DatabasePool() (db_pool.py:196): minconn open     *)
(* connections idle, every counter 0.                                      *)
(***************************************************************************)
PoolInit ==
    /\ DB_POOL_MAX \in 1..MaxPoolSize
    /\ DB_POOL_MIN \in 0..DB_POOL_MAX
    /\ pool_idle = [i \in 1..DB_POOL_MIN |-> i]
    /\ pool_used = {}
    /\ closed = [c \in ConnIds |-> ~(c \in 1..DB_POOL_MIN)]
    /\ stats = [active_connections |-> 0, failed_connections |-> 0, pool_exhausted |-> 0]
    /\ pc = [t \in Threads |-> "out"]
    /\ conn = [t \in Threads |-> None]
    /\ tmp = [t \in Threads |-> 0]
    /\ raised = [t \in Threads |-> "none"]
    /\ lost = 0

(***************************************************************************)
(* DatabasePool.get_connection, one action per step of a thread.           *)
(***************************************************************************)
\* The threads are alike: they are numbered in the order in which they make
\* their call.
Starts(t) ==
    /\ pc[t] = "out"
    /\ \A u \in Threads : u < t => pc[u] # "out"

\* conn = self._pool.getconn() (116, and again 122): on an exception conn
\* keeps the value it had.
Acquire(t, at) ==
    /\ pc[t] = at
    /\ \E connectOk \in BOOLEAN :
         LET r == getconn(connectOk) IN
           /\ pool_idle' = r.idle
           /\ pool_used' = r.used
           /\ IF r.kind = "conn"
              THEN /\ conn' = [conn EXCEPT ![t] = r.c]
                   /\ closed' = [closed EXCEPT ![r.c] = IF r.c \in Range(pool_idle) THEN @ ELSE FALSE]
                   /\ pc' = [pc EXCEPT ![t] = IF at = "out" THEN "check" ELSE "inc_r"]
                   /\ UNCHANGED raised
              ELSE /\ raised' = [raised EXCEPT ![t] = r.kind]
                   /\ pc' = [pc EXCEPT ![t] = "except_r"]
                   /\ UNCHANGED <<conn, closed>>
    /\ UNCHANGED nonPoolVars
    /\ UNCHANGED <<lost, DB_POOL_MIN, DB_POOL_MAX, stats, tmp>>

\* a caller enters `with db_pool.get_connection() as conn:`: conn = None (113)
\* and the first getconn (116)
GetConn(t) == Starts(t) /\ Acquire(t, "out")

\* `if conn:` (117; a connection object is always true, getconn never returns
\* None), `if conn.closed: self._pool.putconn(conn, close=True)` (119-121) and,
\* for an open connection, the load of `active_connections += 1` (124).
\* No lock is taken for the counters: the load and the store of a `+= 1` are
\* separate steps and other threads run in between.
CheckClosed(t) ==
    /\ pc[t] = "check"
    /\ IF conn[t] = None
       THEN \* 127-128: pool_exhausted += 1; raise Exception
            /\ stats' = [stats EXCEPT !.pool_exhausted = @ + 1]
            /\ raised' = [raised EXCEPT ![t] = "Exception"]
            /\ pc' = [pc EXCEPT ![t] = "except_r"]
            /\ UNCHANGED <<pool_idle, pool_used, tmp>>
       ELSE IF closed[conn[t]]
       THEN LET r == putconn(conn[t], TRUE) IN
              /\ pool_idle' = r.idle
              /\ pool_used' = r.used
              /\ pc' = [pc EXCEPT ![t] = "getconn2"]
              /\ UNCHANGED <<stats, raised, tmp>>
       ELSE /\ tmp' = [tmp EXCEPT ![t] = stats.active_connections]
            /\ pc' = [pc EXCEPT ![t] = "inc_w"]
            /\ UNCHANGED <<pool_idle, pool_used, stats, raised>>
    /\ UNCHANGED nonPoolVars
    /\ UNCHANGED <<lost, DB_POOL_MIN, DB_POOL_MAX, closed, conn>>

\* conn = self._pool.getconn() (122): the connection is not tested again
ReGetConn(t) == Acquire(t, "getconn2")

\* the load of `active_connections += 1` (124) after 122
IncLoad(t) ==
    /\ pc[t] = "inc_r"
    /\ tmp' = [tmp EXCEPT ![t] = stats.active_connections]
    /\ pc' = [pc EXCEPT ![t] = "inc_w"]
    /\ UNCHANGED nonPoolVars
    /\ UNCHANGED <<lost, DB_POOL_MIN, DB_POOL_MAX, pool_idle, pool_used, closed, stats, conn,
                   raised>>

\* the store of 124, then `yield conn` (125): the caller's block runs
IncStore(t) ==
    /\ pc[t] = "inc_w"
    /\ stats' = [stats EXCEPT !.active_connections = tmp[t] + 1]
    /\ tmp' = [tmp EXCEPT ![t] = 0]
    /\ pc' = [pc EXCEPT ![t] = "body"]
    /\ UNCHANGED nonPoolVars
    /\ UNCHANGED <<lost, DB_POOL_MIN, DB_POOL_MAX, pool_idle, pool_used, closed, conn,
                   raised>>

release_unless_raised(t) == conn[t] # None /\ raised[t] = "none"

\* `if conn:` of the finally clause (142)
release_needed(t) == conn[t] # None

\* the generator is done: the exception in flight, if any, goes to the caller
Leave(t) ==
    /\ raised' = [raised EXCEPT ![t] = "none"]
    /\ conn' = [conn EXCEPT ![t] = None]
    /\ pc' = [pc EXCEPT ![t] = "done"]

\* the finally clause (140-147): self._pool.putconn(conn); an exception of
\* putconn is logged and the decrement of 145 is skipped
Release(t) ==
    IF release_needed(t)
    THEN LET r == putconn(conn[t], FALSE) IN
           /\ pool_idle' = r.idle
           /\ pool_used' = r.used
           /\ closed' = [closed EXCEPT ![conn[t]] = @ \/ r.closes]
           /\ IF r.kind = "ok"
              THEN /\ pc' = [pc EXCEPT ![t] = "dec_r"]
                   /\ UNCHANGED <<conn, raised>>
              ELSE Leave(t)
    ELSE /\ Leave(t)
         /\ UNCHANGED <<pool_idle, pool_used, closed>>

\* the caller's block ends normally: the generator resumes after the yield
\* and runs the finally clause
BodyReturns(t) ==
    /\ pc[t] = "body"
    /\ Release(t)
    /\ UNCHANGED nonPoolVars
    /\ UNCHANGED <<lost, DB_POOL_MIN, DB_POOL_MAX, stats, tmp>>

\* the caller's block raises: the exception is thrown into the generator at
\* the yield and caught at 135; the load of `failed_connections += 1` (136)
BodyRaises(t) ==
    /\ pc[t] = "body"
    /\ raised' = [raised EXCEPT ![t] = "Exception"]
    /\ tmp' = [tmp EXCEPT ![t] = stats.failed_connections]
    /\ pc' = [pc EXCEPT ![t] = "except_w"]
    /\ UNCHANGED nonPoolVars
    /\ UNCHANGED <<lost, DB_POOL_MIN, DB_POOL_MAX, pool_idle, pool_used, closed, stats, conn>>

\* getconn has raised: the load of `failed_connections += 1` (131 for
\* PoolError, 136 otherwise)
ExceptLoad(t) ==
    /\ pc[t] = "except_r"
    /\ tmp' = [tmp EXCEPT ![t] = stats.failed_connections]
    /\ pc' = [pc EXCEPT ![t] = "except_w"]
    /\ UNCHANGED nonPoolVars
    /\ UNCHANGED <<lost, DB_POOL_MIN, DB_POOL_MAX, pool_idle, pool_used, closed, stats, conn,
                   raised>>

\* the store of 131/136, then `raise` (133/138): on to the finally clause
ExceptStore(t) ==
    /\ pc[t] = "except_w"
    /\ stats' = [stats EXCEPT !.failed_connections = tmp[t] + 1]
    /\ tmp' = [tmp EXCEPT ![t] = 0]
    /\ pc' = [pc EXCEPT ![t] = "finally"]
    /\ UNCHANGED nonPoolVars
    /\ UNCHANGED <<lost, DB_POOL_MIN, DB_POOL_MAX, pool_idle, pool_used, closed, conn,
                   raised>>

\* the finally clause after an exception
Finally(t) ==
    /\ pc[t] = "finally"
    /\ Release(t)
    /\ UNCHANGED nonPoolVars
    /\ UNCHANGED <<lost, DB_POOL_MIN, DB_POOL_MAX, stats, tmp>>

\* self._stats['active_connections'] -= 1 (145): the load
DecLoad(t) ==
    /\ pc[t] = "dec_r"
    /\ tmp' = [tmp EXCEPT ![t] = stats.active_connections]
    /\ pc' = [pc EXCEPT ![t] = "dec_w"]
    /\ UNCHANGED nonPoolVars
    /\ UNCHANGED <<lost, DB_POOL_MIN, DB_POOL_MAX, pool_idle, pool_used, closed, stats, conn,
                   raised>>

\* the store of 145; the generator is done
DecStore(t) ==
    /\ pc[t] = "dec_w"
    /\ stats' = [stats EXCEPT !.active_connections = tmp[t] - 1]
    /\ tmp' = [tmp EXCEPT ![t] = 0]
    /\ Leave(t)
    /\ UNCHANGED nonPoolVars
    /\ UNCHANGED <<lost, DB_POOL_MIN, DB_POOL_MAX, pool_idle, pool_used, closed>>

(***************************************************************************)
(* connect_db / close_db of db_pool.py (202-223)                           *)
(***************************************************************************)
\* return db_pool._pool.getconn(): an exception goes to the caller
connect_db(t) ==
    /\ Starts(t)
    /\ \E connectOk \in BOOLEAN :
         LET r == getconn(connectOk) IN
           /\ pool_idle' = r.idle
           /\ pool_used' = r.used
           /\ IF r.kind = "conn"
              THEN /\ conn' = [conn EXCEPT ![t] = r.c]
                   /\ closed' = [closed EXCEPT ![r.c] = IF r.c \in Range(pool_idle) THEN @ ELSE FALSE]
                   /\ pc' = [pc EXCEPT ![t] = "compat"]
              ELSE /\ pc' = [pc EXCEPT ![t] = "returned"]
                   /\ UNCHANGED <<conn, closed>>
    /\ UNCHANGED nonPoolVars
    /\ UNCHANGED <<lost, DB_POOL_MIN, DB_POOL_MAX, stats, tmp, raised>>

\* if conn: db_pool._pool.putconn(conn)
close_db(t) ==
    /\ pc[t] = "compat"
    /\ LET r == putconn(conn[t], FALSE) IN
         /\ pool_idle' = r.idle
         /\ pool_used' = r.used
         /\ closed' = [closed EXCEPT ![conn[t]] = @ \/ r.closes]
    /\ conn' = [conn EXCEPT ![t] = None]
    /\ pc' = [pc EXCEPT ![t] = "returned"]
    /\ UNCHANGED nonPoolVars
    /\ UNCHANGED <<lost, DB_POOL_MIN, DB_POOL_MAX, stats, tmp, raised>>

(***************************************************************************)
(* The store or the network ends a connection: conn.closed becomes true.   *)
(* get_connection tests for it at 119.                                     *)
(***************************************************************************)
ConnLost(c) ==
    /\ c \in Range(pool_idle) \cup pool_used
    /\ ~closed[c]
    /\ lost < MaxLost
    /\ lost' = lost + 1
    /\ closed' = [closed EXCEPT ![c] = TRUE]
    /\ UNCHANGED nonPoolVars
    /\ UNCHANGED <<DB_POOL_MIN, DB_POOL_MAX, pool_idle, pool_used, stats, pc,
                   conn, tmp, raised>>

\* The store restarts, or the network between it and the application goes down:
\* every connection of the pool ends at once.
StoreRestarts ==
    /\ Range(pool_idle) \cup pool_used # {}
    /\ lost < MaxLost
    /\ lost' = lost + 1
    /\ closed' = [c \in ConnIds |-> closed[c] \/ c \in Range(pool_idle) \cup pool_used]
    /\ UNCHANGED nonPoolVars
    /\ UNCHANGED <<DB_POOL_MIN, DB_POOL_MAX, pool_idle, pool_used, stats, pc,
                   conn, tmp, raised>>

PoolNext ==
    \/ \E t \in Threads :
         \/ GetConn(t)
         \/ CheckClosed(t)
         \/ ReGetConn(t)
         \/ IncLoad(t)
         \/ IncStore(t)
         \/ BodyReturns(t)
         \/ BodyRaises(t)
         \/ ExceptLoad(t)
         \/ ExceptStore(t)
         \/ Finally(t)
         \/ DecLoad(t)
         \/ DecStore(t)
         \/ connect_db(t)
         \/ close_db(t)
    \/ \E c \in ConnIds : ConnLost(c)

(***************************************************************************)
(* The data-access functions of db.py and admin_db.py.  Each call opens     *)
(* its own connection with db.connect_db (psycopg2.connect), runs its       *)
(* statements and closes the connection with db.close_db.  The store may    *)
(* refuse the connect and may fail any statement.                           *)
(***************************************************************************)
NULL == "NULL"
Unset == "unset"
ADMIN_EMAIL == "admin@example.com"
\* the owner given to save_image, log_statistics and the reads; register_user
\* is also called with the administrator's email
Owners == {"a@x.com"}
Emails == Owners \cup {ADMIN_EMAIL}
Passwords == {"pw1", "pw2"}
ActionTypes == {"upload"}
\* the ids a caller asks for: of a row that can exist and of one that need not
ImageIds == {1, 2}

\* hashlib.sha256(password.encode()).hexdigest(): distinct passwords of the
\* model have distinct digests
sha256(p) == <<"sha256", p>>

\* the functions of db.py that run their statement outside any try
DbReads == {"get_images_list", "get_total_images", "get_image_by_id", "get_user_images",
            "get_total_user_images", "get_expired_images"}

\* the functions of admin_db.py, whose whole body is in a try / except Exception
AdminReads == {"get_statistics_with_filters", "get_statistics_count",
               "get_unique_action_types", "get_unique_users", "get_statistics_summary"}

\* timedelta(days=1), in seconds (db.py:249)
Day == 86400
\* storage_days = 30 if storage_period == '30' else 15 (app.py:982)
StorageDays == {15, 30}
\* the clock when the model starts; None stands for a NULL timestamp
Epoch == 1
\* by how much the clock is seen to advance: a second, a second less than the
\* shorter storage period, that period
Jumps == {1, 15 * Day - 1, 15 * Day}

NoCall == [f |-> "none", email |-> NULL, password |-> NULL, id |-> None,
           upload_time |-> None, storage_days |-> None, user_email |-> NULL]
\* the sweep has not begun
NoSweep == [pc |-> "idle", expired_images |-> <<>>, i |-> 1, errors |-> {},
            refused |-> {}, aborted |-> FALSE]
NoResult == [kind |-> "none"]
Return(v) == [kind |-> "return", value |-> v]
Raise == [kind |-> "raise"]

\* the value each function returns when it gives up
default_of(f) ==
    IF f \in {"get_images_list", "get_user_images", "get_expired_images",
              "get_statistics_with_filters", "get_unique_action_types",
              "get_unique_users", "get_statistics_summary"} THEN <<"rows", {}>>
    ELSE IF f \in {"get_total_images", "get_total_user_images", "get_statistics_count"}
    THEN <<"count", 0>>
    ELSE IF f = "get_image_by_id" THEN <<"row", None>>
    ELSE <<"bool", FALSE>>

user_exists(e) == \E i \in DOMAIN users : users[i].email = e

no_unique_check(e) == FALSE

\* email TEXT PRIMARY KEY (db.py:197): the store refuses a second row
unique_violation(e) == user_exists(e)

\* the comparison with <= in place of <
is_expired_inclusive(r, now) ==
    r.expiration_date # None /\ r.expiration_date <= now

\* WHERE expiration_date IS NOT NULL AND expiration_date < %s, with
\* (datetime.now(),) (db.py:538)
is_expired(r, now) ==
    r.expiration_date # None /\ r.expiration_date < now

\* what a read finds in the tables
read_value(c) ==
    CASE c.f = "get_images_list" -> <<"rows", {r.id : r \in images}>>
      [] c.f = "get_total_images" -> <<"count", Cardinality(images)>>
      [] c.f = "get_image_by_id" ->
            <<"row", IF \E r \in images : r.id = c.id THEN c.id ELSE None>>
      [] c.f = "get_user_images" ->
            <<"rows", {r.id : r \in {x \in images : x.user_email = c.email}}>>
      [] c.f = "get_total_user_images" ->
            <<"count", Cardinality({x \in images : x.user_email = c.email})>>
      [] c.f = "get_expired_images" ->
            <<"rows", {r.id : r \in {x \in images : is_expired(x, clock)}}>>
      [] c.f \in {"get_statistics_with_filters", "get_statistics_summary"} ->
            <<"rows", DOMAIN statistics>>
      [] c.f = "get_statistics_count" -> <<"count", Len(statistics)>>
      [] c.f = "get_unique_action_types" ->
            <<"rows", {statistics[i].action_type : i \in DOMAIN statistics}>>
      [] c.f = "get_unique_users" ->
            <<"rows", {statistics[i].user_email : i \in DOMAIN statistics} \ {NULL}>>

DataInit ==
    /\ ADMIN_PASSWORD \in {Unset, "pw1"}
    /\ users = <<>>
    /\ images = {}
    /\ next_image_id = 1
    /\ statistics = <<>>
    /\ open_conns = 0
    /\ dpc = [t \in Callers |-> "idle"]
    /\ call = [t \in Callers |-> NoCall]
    /\ result = [t \in Callers |-> NoResult]

\* The callers are alike: they are numbered in the order in which they call.
DataStarts(t) ==
    /\ dpc[t] = "idle"
    /\ \A u \in Callers : u < t => dpc[u] # "idle"

\* the function returns v to its caller
Returns(t, v) ==
    /\ result' = [result EXCEPT ![t] = Return(v)]
    /\ dpc' = [dpc EXCEPT ![t] = "returned"]

\* an exception leaves the function and reaches its caller
Propagates(t) ==
    /\ result' = [result EXCEPT ![t] = Raise]
    /\ dpc' = [dpc EXCEPT ![t] = "returned"]

\* db.connect_db (db.py:42-91): a connection, or None when psycopg2.connect
\* raises
db_connect_db(ok) == IF ok THEN open_conns + 1 ELSE open_conns

\* db.close_db (db.py:94-107): conn.close()
db_close_db == open_conns - 1

\* conn = connect_db(); if not conn: return <default>   (functions of db.py)
DbBegin(t, c, at) ==
    /\ DataStarts(t)
    /\ call' = [call EXCEPT ![t] = c]
    /\ \E ok \in BOOLEAN :
         /\ open_conns' = db_connect_db(ok)
         /\ IF ok
            THEN /\ dpc' = [dpc EXCEPT ![t] = at]
                 /\ UNCHANGED result
            ELSE Returns(t, default_of(c.f))
    /\ UNCHANGED <<ADMIN_PASSWORD, users, images, next_image_id, statistics>>
    /\ UNCHANGED nonDataVars

\* try: conn = connect_db(); cur = conn.cursor() ... except Exception: return
\* <default>   (functions of admin_db.py; None.cursor() raises inside the try)
AdminBegin(t, c, at) == DbBegin(t, c, at)

(***************************************************************************)
(* db.py: save_image, delete_image and the reads                           *)
(***************************************************************************)
\* save_image (db.py:216-264) up to its connect; the image belongs to
\* user_email or to nobody; upload_time is the clock its caller has read
\* (app.py:794)
save_image(t, user_email, storage_days) ==
    DbBegin(t, [NoCall EXCEPT !.f = "save_image", !.email = user_email,
                              !.upload_time = clock, !.storage_days = storage_days],
            "save_image")

\* expiration_date = None; if user_email: expiration_date = datetime.now() +
\* timedelta(days=storage_days) (db.py:247-249)
expiration_date(user_email, storage_days) ==
    IF user_email # NULL THEN clock + storage_days * Day ELSE None

\* cur.execute(INSERT INTO images ...); conn.commit(); close_db(conn); return
\* True.  No try: when the store fails the statement, or refuses it because
\* user_email references no row of users, the exception leaves save_image and
\* close_db is not reached.
save_image_execute(t) ==
    /\ dpc[t] = "save_image"
    /\ \E ok \in BOOLEAN :
         IF ok /\ (call[t].email = NULL \/ user_exists(call[t].email))
         THEN /\ images' = images \cup
                    {[id |-> next_image_id, user_email |-> call[t].email,
                      upload_time |-> call[t].upload_time,
                      expiration_date |-> expiration_date(call[t].email,
                                                          call[t].storage_days)]}
              /\ next_image_id' = next_image_id + 1
              /\ open_conns' = db_close_db
              /\ Returns(t, <<"bool", TRUE>>)
         ELSE /\ Propagates(t)
              /\ UNCHANGED <<images, next_image_id, open_conns>>
    /\ UNCHANGED <<ADMIN_PASSWORD, users, statistics, call>>
    /\ UNCHANGED nonDataVars

\* delete_image (db.py:338-356) up to its connect
delete_image(t, image_id) ==
    DbBegin(t, [NoCall EXCEPT !.f = "delete_image", !.id = image_id], "delete_image")

\* DELETE FROM images WHERE id = %s (db.py:351)
images_without(image_id) == {r \in images : r.id # image_id}

\* what that DELETE does to table statistics: FOREIGN KEY (file_id) REFERENCES
\* images(id) ON DELETE SET NULL when init_db.py has made the table
\* (init_db.py:246), nothing when db.py has (db.py:657-666)
statistics_without_file(image_id) ==
    IF statistics_ddl = "init_db.py" /\ \E r \in images : r.id = image_id
    THEN [i \in DOMAIN statistics |->
            [statistics[i] EXCEPT !.file_id = IF @ = image_id THEN None ELSE @]]
    ELSE statistics

\* cur.execute(DELETE FROM images WHERE id = %s); conn.commit(); close_db(conn);
\* return True, whether or not a row was deleted
delete_image_execute(t) ==
    /\ dpc[t] = "delete_image"
    /\ \E ok \in BOOLEAN :
         IF ok
         THEN /\ images' = images_without(call[t].id)
              /\ statistics' = statistics_without_file(call[t].id)
              /\ open_conns' = db_close_db
              /\ Returns(t, <<"bool", TRUE>>)
         ELSE /\ Propagates(t)
              /\ UNCHANGED <<images, statistics, open_conns>>
    /\ UNCHANGED <<ADMIN_PASSWORD, users, next_image_id, call>>
    /\ UNCHANGED nonDataVars

\* get_images_list (267-295), get_total_images (298-314), get_image_by_id
\* (317-335), get_user_images (481-503), get_total_user_images (506-524),
\* get_expired_images (527-543) up to their connect
db_read(t, f, email, image_id) ==
    /\ f \in DbReads
    /\ email # NULL <=> f \in {"get_user_images", "get_total_user_images"}
    /\ image_id # None <=> f = "get_image_by_id"
    /\ DbBegin(t, [NoCall EXCEPT !.f = f, !.email = email, !.id = image_id], "db_read")

\* cur.execute(SELECT ...); result = cur.fetch...(); close_db(conn); return
\* result.  No try: a failing statement raises out of the function.
db_read_execute(t) ==
    /\ dpc[t] = "db_read"
    /\ \E ok \in BOOLEAN :
         IF ok
         THEN /\ open_conns' = db_close_db
              /\ Returns(t, read_value(call[t]))
         ELSE /\ Propagates(t)
              /\ UNCHANGED open_conns
    /\ UNCHANGED <<ADMIN_PASSWORD, users, images, next_image_id, statistics, call>>
    /\ UNCHANGED nonDataVars

(***************************************************************************)
(* admin_db.py: the reads of the statistics table and log_statistics       *)
(***************************************************************************)
\* get_statistics_with_filters (170-299), get_statistics_count (302-358),
\* get_unique_action_types (361-381), get_unique_users (384-404),
\* get_statistics_summary (495-516) up to their connect
admin_read(t, f) ==
    /\ f \in AdminReads
    /\ AdminBegin(t, [NoCall EXCEPT !.f = f], "admin_read")

\* cur.execute(...); close_db(conn); return the rows.  except Exception:
\* return the default, and close_db is not called.
admin_read_execute(t) ==
    /\ dpc[t] = "admin_read"
    /\ \E ok \in BOOLEAN :
         IF ok
         THEN /\ open_conns' = db_close_db
              /\ Returns(t, read_value(call[t]))
         ELSE /\ Returns(t, default_of(call[t].f))
              /\ UNCHANGED open_conns
    /\ UNCHANGED <<ADMIN_PASSWORD, users, images, next_image_id, statistics, call>>
    /\ UNCHANGED nonDataVars

\* log_statistics (admin_db.py:407-445) up to its connect
log_statistics(t, user_email, file_id) ==
    AdminBegin(t, [NoCall EXCEPT !.f = "log_statistics", !.email = user_email,
                                 !.user_email = user_email, !.id = file_id],
               IF user_email = NULL THEN "log_insert" ELSE "log_select")

\* the lookup that keeps the email whatever it finds
looked_up_kept(user_email) == user_email

\* if not cur.fetchone(): user_email = None   (427-430): the local variable
\* user_email after the lookup
looked_up(user_email) == IF user_exists(user_email) THEN user_email ELSE NULL

\* if user_email: cur.execute(SELECT email FROM users WHERE email = %s);
\* if not cur.fetchone(): user_email = None   (426-430)
log_statistics_select(t) ==
    /\ dpc[t] = "log_select"
    /\ \E ok \in BOOLEAN :
         IF ok
         THEN /\ call' = [call EXCEPT ![t].user_email = looked_up(@)]
              /\ dpc' = [dpc EXCEPT ![t] = "log_insert"]
              /\ UNCHANGED result
         ELSE /\ Returns(t, <<"bool", FALSE>>)
              /\ UNCHANGED call
    /\ UNCHANGED <<ADMIN_PASSWORD, users, images, next_image_id, statistics, open_conns>>
    /\ UNCHANGED nonDataVars

\* the foreign keys of the statistics table init_db.py makes refuse a row
\* whose user_email or file_id references no row (init_db.py:245-246)
statistics_fk_violation(user_email, file_id) ==
    /\ statistics_ddl = "init_db.py"
    /\ \/ user_email # NULL /\ ~user_exists(user_email)
       \/ file_id # None /\ ~\E r \in images : r.id = file_id

\* cur.execute(INSERT INTO statistics ...); conn.commit(); close_db(conn);
\* return True (432-442); except Exception: return False (443-445)
log_statistics_insert(t) ==
    /\ dpc[t] = "log_insert"
    /\ \E ok \in BOOLEAN, a \in ActionTypes :
         IF ok /\ ~statistics_fk_violation(call[t].user_email, call[t].id)
         THEN /\ statistics' = Append(statistics,
                                      [action_type |-> a,
                                       user_email |-> call[t].user_email,
                                       file_id |-> call[t].id])
              /\ open_conns' = db_close_db
              /\ Returns(t, <<"bool", TRUE>>)
         ELSE /\ Returns(t, <<"bool", FALSE>>)
              /\ UNCHANGED <<statistics, open_conns>>
    /\ UNCHANGED <<ADMIN_PASSWORD, users, images, next_image_id, call>>
    /\ UNCHANGED nonDataVars

(***************************************************************************)
(* db.py: register_user (368-441)                                          *)
(***************************************************************************)
\* the checks on an administrator's email (389-410), then conn = connect_db()
\* (415-417)
register_user(t, email, password) ==
    /\ DataStarts(t)
    /\ call' = [call EXCEPT ![t] =
                  [NoCall EXCEPT !.f = "register_user", !.email = email,
                                 !.password = password]]
    /\ IF email = ADMIN_EMAIL /\ ADMIN_PASSWORD = Unset
       THEN /\ Returns(t, <<FALSE, "admin_password_not_set">>)
            /\ UNCHANGED open_conns
       ELSE IF email = ADMIN_EMAIL /\ password # ADMIN_PASSWORD
       THEN /\ Returns(t, <<FALSE, "wrong_admin_password">>)
            /\ UNCHANGED open_conns
       ELSE \E ok \in BOOLEAN :
              /\ open_conns' = db_connect_db(ok)
              /\ IF ok
                 THEN /\ dpc' = [dpc EXCEPT ![t] = "reg_select"]
                      /\ UNCHANGED result
                 ELSE Returns(t, <<FALSE, "connect_error">>)
    /\ UNCHANGED <<ADMIN_PASSWORD, users, images, next_image_id, statistics>>
    /\ UNCHANGED nonDataVars

\* cur.execute(SELECT email FROM users WHERE email = %s); if cur.fetchone():
\* close_db(conn); return False, "... уже существует" (421-425).  The SELECT
\* is outside the try: when it fails the exception leaves register_user.
register_user_select(t) ==
    /\ dpc[t] = "reg_select"
    /\ \E ok \in BOOLEAN :
         IF ~ok
         THEN /\ Propagates(t)
              /\ UNCHANGED open_conns
         ELSE IF user_exists(call[t].email)
         THEN /\ open_conns' = db_close_db
              /\ Returns(t, <<FALSE, "already_exists">>)
         ELSE /\ dpc' = [dpc EXCEPT ![t] = "reg_insert"]
              /\ UNCHANGED <<result, open_conns>>
    /\ UNCHANGED <<ADMIN_PASSWORD, users, images, next_image_id, statistics, call>>
    /\ UNCHANGED nonDataVars

\* password_hash = sha256(password); try: INSERT INTO users; commit;
\* close_db(conn); return True, ...  except Exception: rollback;
\* close_db(conn); return False, "Ошибка при регистрации: ..." (428-441)
register_user_insert(t) ==
    /\ dpc[t] = "reg_insert"
    /\ \E ok \in BOOLEAN :
         /\ open_conns' = db_close_db
         /\ IF ok /\ ~unique_violation(call[t].email)
            THEN /\ users' = Append(users, [email |-> call[t].email,
                                            password_hash |-> sha256(call[t].password)])
                 /\ Returns(t, <<TRUE, "registered">>)
            ELSE /\ Returns(t, <<FALSE, "registration_error">>)
                 /\ UNCHANGED users
    /\ UNCHANGED <<ADMIN_PASSWORD, images, next_image_id, statistics, call>>
    /\ UNCHANGED nonDataVars

\* A connection that a function left open when it ended is closed only when
\* the interpreter frees the connection object, at a time of its own.
conn_dealloc ==
    /\ open_conns > Cardinality({t \in Callers : dpc[t] \notin {"idle", "returned"}})
    /\ open_conns' = open_conns - 1
    /\ UNCHANGED <<ADMIN_PASSWORD, users, images, next_image_id, statistics, dpc, call,
                   result>>
    /\ UNCHANGED nonDataVars

DataNext ==
    \/ conn_dealloc
    \/ \E t \in Callers :
          \/ \E e \in Owners \cup {NULL} : save_image(t, e, 30)
          \/ save_image_execute(t)
          \/ \E i \in ImageIds : delete_image(t, i)
          \/ delete_image_execute(t)
          \/ \E f \in DbReads, e \in Owners \cup {NULL}, i \in ImageIds \cup {None} :
               db_read(t, f, e, i)
          \/ db_read_execute(t)
          \/ \E f \in AdminReads : admin_read(t, f)
          \/ admin_read_execute(t)
          \/ \E e \in Owners \cup {NULL} : log_statistics(t, e, None)
          \/ log_statistics_select(t)
          \/ log_statistics_insert(t)
          \/ \E e \in Emails, p \in Passwords : register_user(t, e, p)
          \/ register_user_select(t)
          \/ register_user_insert(t)

(***************************************************************************)
(* admin_db.py: the filters of the statistics view.  A string is the        *)
(* sequence of its pieces: an email, a comma, a blank, or one of the words  *)
(* the functions look for.                                                 *)
(***************************************************************************)
\* 'Гость', the value that asks for the rows of no user
GUEST == "Guest"
\* the emails the rows of the statistics table carry
RowEmails == {"a@x.com", "bob@example.com", "Admin@x.com"}
\* the action types the rows carry; '' asks for every type
RowActions == {"upload", "login"}
\* what follows 'CUSTOM_LIST:' in a filter
Pieces == {",", " ", "a@x.com", "bob@example.com"}
Texts == UNION {[1..n -> Pieces] : n \in 0..MaxLen}
\* request.args.get('user_email', '') (app.py:875)
UserFilters ==
    {<<>>, <<GUEST>>, <<"ACTIVE_USERS">>}
        \cup {<<e>> : e \in RowEmails}
        \cup {<<"CUSTOM_LIST:">> \o t : t \in Texts}
\* per_page and offset = (page - 1) * per_page (app.py:877, 887)
Pages == {<<50, 0>>, <<1, 1>>}
\* the statistics tables the view is asked about
Tables ==
    UNION {[1..n -> [action_type : RowActions, user_email : RowEmails \cup {NULL},
                     file_id : {None}]] : n \in 0..MaxRows}

NoQuery == [action_type |-> "", user_email |-> <<>>, limit |-> 50, offset |-> 0]
NoFound == [pc |-> "idle", count |-> 0, rows |-> <<>>, failed |-> FALSE]

\* the statistics view has not been asked for
QueryQuiet ==
    /\ query = NoQuery
    /\ found = NoFound

\* str.split(',')
RECURSIVE split(_)
split(s) ==
    IF \A i \in DOMAIN s : s[i] # ","
    THEN <<s>>
    ELSE LET k == CHOOSE i \in DOMAIN s :
                     s[i] = "," /\ \A j \in 1..(i - 1) : s[j] # ","
         IN  <<SubSeq(s, 1, k - 1)>> \o split(SubSeq(s, k + 1, Len(s)))

\* str.strip()
RECURSIVE strip(_)
strip(s) ==
    IF s # <<>> /\ Head(s) = " " THEN strip(Tail(s))
    ELSE IF s # <<>> /\ s[Len(s)] = " " THEN strip(SubSeq(s, 1, Len(s) - 1))
    ELSE s

\* user_list = [u.strip() for u in user_email[12:].split(',') if u.strip()]
\* (admin_db.py:263, 336)
user_list(text) ==
    LET parts == split(text)
    IN  SelectSeq([i \in DOMAIN parts |-> strip(parts[i])], LAMBDA u : u # <<>>)

\* LOWER(user_email)
lower(e) == IF e = "Admin@x.com" THEN "admin@x.com" ELSE e

\* e LIKE '%w%'
like(e, w) ==
    \/ e = "bob@example.com" /\ w = "example.com"
    \/ e = "admin@x.com" /\ w = "admin"

\* the WHERE clause the two functions build (admin_db.py:249-272, 323-343)
row_selected(r, action_type, user_email) ==
    /\ action_type # "" => r.action_type = action_type
    /\ user_email # <<>> =>
         IF user_email = <<GUEST>>
         THEN r.user_email = NULL
         ELSE IF user_email = <<"ACTIVE_USERS">>
         THEN /\ r.user_email # NULL
              /\ ~like(r.user_email, "example.com")
              /\ ~like(lower(r.user_email), "admin")
         ELSE IF Head(user_email) = "CUSTOM_LIST:"
         THEN user_list(Tail(user_email)) # <<>> =>
                /\ r.user_email # NULL
                /\ \E k \in DOMAIN user_list(Tail(user_email)) :
                      user_list(Tail(user_email))[k] = <<r.user_email>>
         ELSE /\ r.user_email # NULL
              /\ user_email = <<r.user_email>>

\* cur.execute(query, params) (admin_db.py:288, 349): psycopg2 formats the
\* query with the parameters it is given, also when the list is empty, and the
\* ACTIVE_USERS condition carries its LIKE patterns as unescaped '%...%'
\* (admin_db.py:260, 333): the formatting fails and execute raises
execute_raises(action_type, user_email) == user_email = <<"ACTIVE_USERS">>

\* the rows the WHERE clause selects
selected(action_type, user_email) ==
    {i \in DOMAIN statistics : row_selected(statistics[i], action_type, user_email)}

\* ORDER BY timestamp DESC: the rows, latest first (timestamp DEFAULT
\* CURRENT_TIMESTAMP follows the order of insertion)
RECURSIVE Descending(_)
Descending(S) ==
    IF S = {} THEN <<>>
    ELSE LET m == CHOOSE x \in S : \A y \in S : y <= x
         IN  <<m>> \o Descending(S \ {m})

\* get_statistics_with_filters (admin_db.py:170-299): the page of rows, or []
\* from its except
get_statistics_with_filters(action_type, user_email, limit, offset) ==
    IF execute_raises(action_type, user_email)
    THEN <<>>
    ELSE LET rows == Descending(selected(action_type, user_email))
         IN  SubSeq(rows, offset + 1,
                    IF offset + limit < Len(rows) THEN offset + limit ELSE Len(rows))

\* get_statistics_count (admin_db.py:302-358): COUNT(*), or 0 from its except
get_statistics_count(action_type, user_email) ==
    IF execute_raises(action_type, user_email)
    THEN 0
    ELSE Cardinality(selected(action_type, user_email))

\* view_statistics (app.py:855-900) up to total_records =
\* get_statistics_count(action_type, user_email) (883); the store can fail it
view_statistics(action_type, user_email, per_page, offset) ==
    /\ found.pc = "idle"
    /\ query' = [action_type |-> action_type, user_email |-> user_email,
                 limit |-> per_page, offset |-> offset]
    /\ \E ok \in BOOLEAN :
         found' = [found EXCEPT !.pc = "details",
                                !.count = IF ok
                                          THEN get_statistics_count(action_type, user_email)
                                          ELSE 0,
                                !.failed = ~ok]
    /\ UNCHANGED <<poolVars, dataVars, schemaVars, envVars, appVars>>

\* details = get_statistics_with_filters(action_type, user_email, per_page,
\* offset) (app.py:888)
view_statistics_details ==
    /\ found.pc = "details"
    /\ \E ok \in BOOLEAN :
         found' = [found EXCEPT !.pc = "done",
                                !.rows = IF ok
                                         THEN get_statistics_with_filters(
                                                 query.action_type, query.user_email,
                                                 query.limit, query.offset)
                                         ELSE <<>>,
                                !.failed = @ \/ ~ok]
    /\ UNCHANGED query
    /\ UNCHANGED <<poolVars, dataVars, schemaVars, envVars, appVars>>

FiltersNext ==
    \/ \E a \in RowActions \cup {""}, u \in UserFilters, p \in Pages :
         view_statistics(a, u, p[1], p[2])
    \/ view_statistics_details

(***************************************************************************)
(* db.py: the lists read page after page.  The store gives the rows of an  *)
(* ORDER BY in any order that respects the sort column; rows with equal    *)
(* values of that column come in an order the store chooses anew for each  *)
(* query.                                                                   *)
(***************************************************************************)
\* the per_page values a client asks for
PerPages == 1..MaxPerPage
\* the upload times of the rows of a snapshot
UploadTimes == {Epoch, Epoch + 1}
\* the sort_by values a client sends: two allowed columns and one that is not
SortBys == {"id", "upload_time", "user_email"}

\* allowed_columns (db.py:284)
allowed_columns == {"id", "filename", "size", "upload_time"}

\* the tables of images a list is read from: ids as the sequence gave them
Snapshots ==
    UNION {{{[id |-> k, user_email |-> own[k], upload_time |-> up[k],
              expiration_date |-> None] : k \in 1..n} :
              own \in [1..n -> Owners \cup {NULL}], up \in [1..n -> UploadTimes]} :
           n \in 0..MaxImages}

NoPager == [f |-> "none", email |-> NULL, per_page |-> 1, sort_by |-> "id",
            page |-> 1, got |-> <<>>, refused |-> FALSE]

\* the value of a sort column in a row
column(r, c) == IF c = "id" THEN r.id ELSE r.upload_time

\* ORDER BY c DESC: the orders in which the store can give the rows
OrderedBy(rows, c) ==
    {o \in Orders(rows) :
        \A i, j \in DOMAIN o : i < j => column(o[i], c) >= column(o[j], c)}

\* LIMIT limit OFFSET offset
limit_offset(o, limit, offset) ==
    SubSeq(o, offset + 1, IF offset + limit < Len(o) THEN offset + limit ELSE Len(o))

\* sort_by = sort_by if sort_by in allowed_columns else 'upload_time' (db.py:285)
validated(sort_by) == IF sort_by \in allowed_columns THEN sort_by ELSE "upload_time"

\* the rows and the sort column of the query a list function issues
listed(f, email) ==
    IF f = "get_user_images" THEN {r \in images : r.user_email = email} ELSE images

sorted_by(f, sort_by) ==
    IF f = "get_user_images" THEN "upload_time" ELSE validated(sort_by)

\* get_images_list (db.py:267-295) and get_user_images (db.py:481-503) after
\* their connect: offset = (page - 1) * per_page, and the page of the order o
\* the store has given
list_page(o, page, per_page) == limit_offset(o, per_page, (page - 1) * per_page)

\* ceil(N / P), as the routes compute it from the total
\* ((total + per_page - 1) // per_page)
total_pages(n, per_page) == (n + per_page - 1) \div per_page

\* a client begins to read a list
open_list(f, email, per_page, sort_by) ==
    /\ pager.f = "none"
    /\ pager' = [NoPager EXCEPT !.f = f, !.email = email, !.per_page = per_page,
                                !.sort_by = sort_by]
    /\ UNCHANGED <<issued, routeVars, taskVars, probeVars>>
    /\ UNCHANGED <<poolVars, dataVars, schemaVars, envVars, queryVars>>

\* it asks for its next page: the function returns [] when the connect fails,
\* else the page of the rows as the store has ordered them for this query
read_page ==
    /\ pager.f # "none"
    /\ pager.page <= total_pages(Cardinality(listed(pager.f, pager.email)),
                                 pager.per_page)
    /\ \E ok \in BOOLEAN :
       \E o \in OrderedBy(listed(pager.f, pager.email),
                          sorted_by(pager.f, pager.sort_by)) :
          pager' = [pager EXCEPT
                      !.page = @ + 1,
                      !.got = IF ok THEN @ \o list_page(o, pager.page, pager.per_page)
                              ELSE @,
                      !.refused = @ \/ ~ok]
    /\ UNCHANGED <<issued, routeVars, taskVars, probeVars>>
    /\ UNCHANGED <<poolVars, dataVars, schemaVars, envVars, queryVars>>

PagesNext ==
    \/ \E f \in {"get_images_list", "get_user_images"}, e \in Owners,
          p \in PerPages, c \in SortBys :
          open_list(f, IF f = "get_user_images" THEN e ELSE NULL, p,
                    IF f = "get_user_images" THEN "upload_time" ELSE c)
    \/ read_page

(***************************************************************************)
(* db.py, admin_db.py: the text and the parameters of the queries.  A text  *)
(* is the sequence of the pieces it is put together from.                   *)
(***************************************************************************)
\* the page numbers a caller sends
PageNumbers == 1..MaxPage
\* the user filters the queries are built for
ListFilters ==
    {<<>>, <<GUEST>>, <<"ACTIVE_USERS">>, <<"a@x.com">>, <<"bob@example.com">>,
     <<"CUSTOM_LIST:", "a@x.com">>, <<"CUSTOM_LIST:", "bob@example.com">>,
     <<"CUSTOM_LIST:", "a@x.com", ",", "bob@example.com">>}

\* ','.join(['%s'] * n) (admin_db.py:266)
RECURSIVE placeholders(_)
placeholders(n) ==
    IF n = 0 THEN <<>>
    ELSE IF n = 1 THEN <<"%s">>
    ELSE <<"%s", ",">> \o placeholders(n - 1)

\* " AND ".join(conditions) (admin_db.py:276)
RECURSIVE join_and(_)
join_and(conditions) ==
    IF conditions = <<>> THEN <<>>
    ELSE IF Len(conditions) = 1 THEN Head(conditions)
    ELSE Head(conditions) \o <<" AND ">> \o join_and(Tail(conditions))

\* get_images_list (db.py:284-290): the f-string and cur.execute(query)
get_images_list_query(page, per_page, sort_by) ==
    [text |-> <<"SELECT * FROM images ORDER BY ", validated(sort_by), " DESC LIMIT ",
                ToString(per_page), " OFFSET ", ToString((page - 1) * per_page)>>,
     params |-> <<>>]

\* get_user_images (db.py:496-498)
get_user_images_query(email, page, per_page) ==
    [text |-> <<"SELECT * FROM images WHERE user_email = %s ORDER BY upload_time DESC LIMIT %s OFFSET %s">>,
     params |-> <<email, per_page, (page - 1) * per_page>>]

\* conditions and params as get_statistics_with_filters builds them
\* (admin_db.py:241-272)
statistics_conditions(action_type, user_email) ==
    (IF action_type # "" THEN <<[text |-> <<"action_type = %s">>,
                                 params |-> <<action_type>>]>> ELSE <<>>)
    \o (IF user_email = <<>> THEN <<>>
        ELSE IF user_email = <<GUEST>>
        THEN <<[text |-> <<"user_email IS NULL">>, params |-> <<>>]>>
        ELSE IF user_email = <<"ACTIVE_USERS">>
        THEN <<[text |-> <<"user_email IS NOT NULL AND user_email NOT LIKE '%example.com%' AND LOWER(user_email) NOT LIKE '%admin%'">>,
                params |-> <<>>]>>
        ELSE IF Head(user_email) = "CUSTOM_LIST:"
        THEN IF user_list(Tail(user_email)) # <<>>
             THEN <<[text |-> <<"user_email IN (">>
                                 \o placeholders(Len(user_list(Tail(user_email))))
                                 \o <<")">>,
                     params |-> user_list(Tail(user_email))]>>
             ELSE <<>>
        ELSE <<[text |-> <<"user_email = %s">>, params |-> <<user_email>>]>>)

RECURSIVE all_params(_)
all_params(conditions) ==
    IF conditions = <<>> THEN <<>>
    ELSE Head(conditions).params \o all_params(Tail(conditions))

\* get_statistics_with_filters (admin_db.py:240-288): query and params at
\* cur.execute(query, params)
get_statistics_with_filters_query(action_type, user_email, limit, offset) ==
    LET conditions == statistics_conditions(action_type, user_email)
    IN  [text |-> <<"SELECT action_type, user_email, ip_address, timestamp, additional_info FROM statistics">>
                  \o (IF conditions # <<>>
                      THEN <<" WHERE ">>
                           \o join_and([i \in DOMAIN conditions |-> conditions[i].text])
                      ELSE <<>>)
                  \o <<" ORDER BY timestamp DESC LIMIT %s OFFSET %s">>,
         params |-> all_params(conditions) \o <<limit, offset>>]

\* the branches a call of get_statistics_with_filters takes: whether there is
\* an action type, which kind of user filter, how many entries its list has
statistics_branches(action_type, user_email) ==
    <<action_type # "",
      IF user_email = <<>> THEN "none"
      ELSE IF user_email = <<GUEST>> THEN "guest"
      ELSE IF user_email = <<"ACTIVE_USERS">> THEN "active"
      ELSE IF Head(user_email) = "CUSTOM_LIST:" THEN "list"
      ELSE "email",
      IF user_email # <<>> /\ Head(user_email) = "CUSTOM_LIST:"
      THEN Len(user_list(Tail(user_email))) ELSE 0>>

\* a query is handed to cur.execute
execute(f, branches, q) ==
    /\ Len(issued) < MaxQueries
    /\ issued' = Append(issued, [f |-> f, branches |-> branches, text |-> q.text,
                                 params |-> q.params])
    /\ UNCHANGED <<pager, routeVars, taskVars, probeVars>>
    /\ UNCHANGED <<poolVars, dataVars, schemaVars, envVars, queryVars>>

get_images_list_execute(page, per_page, sort_by) ==
    execute("get_images_list", <<sort_by \in allowed_columns>>,
            get_images_list_query(page, per_page, sort_by))

get_user_images_execute(email, page, per_page) ==
    execute("get_user_images", <<>>, get_user_images_query(email, page, per_page))

get_statistics_with_filters_execute(action_type, user_email, limit, offset) ==
    execute("get_statistics_with_filters", statistics_branches(action_type, user_email),
            get_statistics_with_filters_query(action_type, user_email, limit, offset))

QueriesNext ==
    \/ \E page \in PageNumbers, per_page \in PerPages, sort_by \in SortBys :
          get_images_list_execute(page, per_page, sort_by)
    \/ \E email \in RowEmails, page \in PageNumbers, per_page \in PerPages :
          get_user_images_execute(email, page, per_page)
    \/ \E action_type \in RowActions \cup {""}, user_email \in ListFilters,
          page \in Pages :
          get_statistics_with_filters_execute(action_type, user_email, page[1], page[2])

(***************************************************************************)
(* app.py: the routes.  Each browser has a session and at most one request *)
(* in the application; the requests of different browsers interleave at    *)
(* their calls of the data-access layer and of the file system.            *)
(***************************************************************************)
Browsers == 1..NumBrowsers
\* the users that have an account
Accounts == {"a@x.com", "b@x.com"}
\* the names of the files the browsers send
BaseNames == {"cat"}

\* an images row that was not found
NoImage == [id |-> None, user_email |-> NULL, upload_time |-> None,
            expiration_date |-> None, filename |-> <<>>]

NoReq == [route |-> "none", pc |-> "idle", n |-> 0, check |-> "none",
          outcome |-> "none", user_email |-> NULL, ids |-> <<>>, i |-> 1,
          image |-> NoImage, new_filename |-> <<>>, saved |-> None,
          file_id |-> None, removed |-> {}, deleted |-> {}, successful |-> {}]

\* a request for a route wrapped by login_required reaches the application
request(s, route, ids, base_name) ==
    /\ req[s].pc \in {"idle", "done"}
    /\ req[s].n < MaxRequests
    /\ req' = [req EXCEPT ![s] = [NoReq EXCEPT !.route = route,
                                               !.pc = "login_required",
                                               !.n = req[s].n + 1,
                                               !.ids = ids,
                                               !.new_filename = <<base_name>>]]
    /\ UNCHANGED <<session, disk, pager, issued, taskVars, probeVars>>
    /\ UNCHANGED <<poolVars, dataVars, schemaVars, envVars, queryVars>>

\* log_statistics (admin_db.py:407-445) as a route calls it: the table with
\* the row, or the table as it was when the call returns False
route_log(action_type, user_email, file_id, ok) ==
    IF ok /\ ~statistics_fk_violation(looked_up(user_email), file_id)
    THEN Append(statistics, [action_type |-> action_type,
                             user_email |-> looked_up(user_email),
                             file_id |-> file_id])
    ELSE statistics

\* authenticate_user (db.py:444-478): False without a connection, without a
\* users row and for another password
authenticate_user(email, password, ok) ==
    /\ ok
    /\ \E i \in DOMAIN users :
          users[i].email = email /\ users[i].password_hash = sha256(password)

\* login (app.py:548-612), POST with email and password: the attempt is
\* logged, then session['user_email'] = email if authenticate_user succeeds,
\* and the result is logged
login(s, email, password) ==
    /\ session[s] = NULL
    /\ req[s].pc \in {"idle", "done"}
    /\ Len(statistics) < MaxLog
    /\ \E ok \in BOOLEAN :
         /\ session' = IF authenticate_user(email, password, ok)
                       THEN [session EXCEPT ![s] = email] ELSE session
         /\ statistics' = route_log(IF authenticate_user(email, password, ok)
                                    THEN "login_success" ELSE "login_failed",
                                    email, None, ok)
    /\ UNCHANGED <<req, disk, pager, issued, taskVars, probeVars>>
    /\ UNCHANGED <<ADMIN_PASSWORD, users, images, next_image_id, open_conns, dpc, call,
                   result>>
    /\ UNCHANGED <<poolVars, schemaVars, envVars, queryVars>>

\* what decorated_function finds (app.py:295-322): no user_email in the
\* session; connect_db() gives None; the SELECT raises; no users row; a row
check_of(s, store) ==
    IF session[s] = NULL THEN "no_session"
    ELSE IF store = "rows"
    THEN IF user_exists(session[s]) THEN "exists" ELSE "missing"
    ELSE store

\* the check that clears the session whenever it redirects
clears_always(check) == check # "exists"

\* session.clear() is called when there is no users row (311) and when the
\* check raises (320), not when connect_db() gives None (315-317)
clears(check) == check \in {"missing", "raises"}

\* login_required.decorated_function (app.py:294-324) up to return f(...)
login_required(s) ==
    /\ req[s].pc = "login_required"
    /\ \E store \in {"no_connection", "raises", "rows"} :
         LET check == check_of(s, store)
         IN  /\ req' = [req EXCEPT ![s].check = check,
                                   ![s].pc = IF check = "exists" THEN "handler"
                                             ELSE "done",
                                   ![s].outcome = IF check = "exists" THEN "none"
                                                  ELSE "redirect_login",
                                   ![s].user_email = session[s]]
             /\ session' = IF clears(check) THEN [session EXCEPT ![s] = NULL]
                           ELSE session
    /\ UNCHANGED <<disk, pager, issued, taskVars, probeVars>>
    /\ UNCHANGED <<poolVars, dataVars, schemaVars, envVars, queryVars>>

\* return f(*args, **kwargs) (324) for a handler that changes nothing
handler(s) ==
    /\ req[s].pc = "handler"
    /\ req[s].route = "images_list"
    /\ req' = [req EXCEPT ![s].pc = "done", ![s].outcome = "ran"]
    /\ UNCHANGED <<session, disk, pager, issued, taskVars, probeVars>>
    /\ UNCHANGED <<poolVars, dataVars, schemaVars, envVars, queryVars>>

(***************************************************************************)
(* app.py: upload_file and process_single_file (727-854)                   *)
(***************************************************************************)
\* datetime.now().strftime('%Y-%m-%d_%H-%M-%S') (776): the clock of the model
\* counts the whole seconds, which is all the format keeps
strftime(now) == now

\* new_filename = f"{base_name}_(Foto-Hosting_{timestamp}){ext_name}" (777)
new_filename_at(base_name, now) == <<base_name, "Foto-Hosting", strftime(now)>>
new_filename(base_name) == new_filename_at(base_name, clock)

\* file_path = os.path.join(user_folder, new_filename) (779), with
\* user_folder = os.path.join(UPLOAD_FOLDER, user_email) (985)
file_path(user_email, filename) == <<user_email, filename>>

\* the handler of browser s ends with this outcome
Done(r, outcome) == [r EXCEPT !.pc = "done", !.outcome = outcome]

\* the size and extension checks, file.save(file_path) and img.verify()
\* (757-790); the except at the end removes the file when verify raises
\* (846-848)
ps_save_file(s) ==
    /\ req[s].pc = "handler"
    /\ req[s].route = "upload_file"
    /\ LET name == new_filename(req[s].new_filename[1])
           path == file_path(req[s].user_email, name)
       IN  \E file \in {"rejected", "not_image", "image"} :
              /\ req' = [req EXCEPT ![s] =
                           IF file = "image"
                           THEN [@ EXCEPT !.pc = "save_image", !.new_filename = name]
                           ELSE Done([@ EXCEPT !.new_filename = name], "error")]
              /\ disk' = IF file = "image" THEN disk \cup {path}
                         ELSE IF file = "not_image" THEN disk \ {path}
                         ELSE disk
    /\ UNCHANGED <<session, pager, issued, taskVars, probeVars>>
    /\ UNCHANGED <<poolVars, dataVars, schemaVars, envVars, queryVars>>

\* upload_time = datetime.now(); save_image(...) (794-796; db.py:225-264):
\* False without a connection, which the caller does not look at; an exception
\* of the INSERT removes the file and, for the foreign key on user_email,
\* clears the session (797-809, 844-848)
ps_save_image(s) ==
    /\ req[s].pc = "save_image"
    /\ LET r == req[s]
           path == file_path(r.user_email, r.new_filename)
       IN  \E store \in {"no_connection", "raises", "rows"} :
              IF store = "no_connection"
              THEN /\ req' = [req EXCEPT ![s].pc = "select_id"]
                   /\ UNCHANGED <<images, next_image_id, session, disk>>
              ELSE IF store = "rows" /\ user_exists(r.user_email)
              THEN /\ images' = images \cup
                          {[id |-> next_image_id, user_email |-> r.user_email,
                            upload_time |-> clock,
                            expiration_date |-> expiration_date(r.user_email, 30),
                            filename |-> r.new_filename]}
                   /\ next_image_id' = next_image_id + 1
                   /\ req' = [req EXCEPT ![s].pc = "select_id",
                                         ![s].saved = next_image_id]
                   /\ UNCHANGED <<session, disk>>
              ELSE /\ req' = [req EXCEPT ![s] = Done(@, "error")]
                   /\ disk' = disk \ {path}
                   /\ session' = IF store = "rows"
                                 THEN [session EXCEPT ![s] = NULL] ELSE session
                   /\ UNCHANGED <<images, next_image_id>>
    /\ UNCHANGED <<pager, issued, taskVars, probeVars>>
    /\ UNCHANGED <<ADMIN_PASSWORD, users, statistics, open_conns, dpc, call, result>>
    /\ UNCHANGED <<poolVars, schemaVars, envVars, queryVars>>

\* SELECT id FROM images WHERE filename = %s ORDER BY upload_time DESC LIMIT 1
\* (814): the ids the store can answer with, None when no row has the name
latest_ids(filename) ==
    LET named == {r \in images : r.filename = filename}
    IN  IF named = {} THEN {None}
        ELSE {r.id : r \in {x \in named : \A y \in named : y.upload_time <= x.upload_time}}

\* conn = connect_db(); cur = conn.cursor(); the SELECT; file_id = ...
\* (812-817), log_statistics (819-826), return success (833-842); without a
\* connection conn.cursor() raises and the except removes the file (844-853)
ps_select_id(s) ==
    /\ req[s].pc = "select_id"
    /\ LET r == req[s]
           path == file_path(r.user_email, r.new_filename)
       IN  \E store \in {"no_connection", "rows"}, ok \in BOOLEAN :
              IF store = "rows"
              THEN \E file_id \in latest_ids(r.new_filename) :
                      /\ req' = [req EXCEPT ![s] =
                                   Done([@ EXCEPT !.file_id = file_id], "success")]
                      /\ statistics' = route_log("upload_success", r.user_email,
                                                 file_id, ok)
                      /\ UNCHANGED disk
              ELSE /\ ok
                   /\ req' = [req EXCEPT ![s] = Done(@, "error")]
                   /\ disk' = disk \ {path}
                   /\ UNCHANGED statistics
    /\ UNCHANGED <<session, pager, issued, taskVars, probeVars>>
    /\ UNCHANGED <<ADMIN_PASSWORD, users, images, next_image_id, open_conns, dpc, call,
                   result>>
    /\ UNCHANGED <<poolVars, schemaVars, envVars, queryVars>>

(***************************************************************************)
(* app.py: delete_image_route (1207-1308) and delete_multiple_images       *)
(* (1311-1439).  The second runs the steps of the first for each id of its *)
(* list, inside a try / except of its own.                                 *)
(***************************************************************************)
\* the id the handler works on
image_id(r) == r.ids[r.i]

\* the handler that deletes whatever it has found
not_owner_never(r, image) == FALSE

\* if image_user_email != user_email (1256, 1365)
not_owner(r, image) == image.user_email # r.user_email

\* the handler is through with this id: delete_image_route returns,
\* delete_multiple_images goes on with the next id and returns after the last
\* (flash_bulk_operation_result, 1421-1437)
next_id(r, outcome) ==
    IF r.i < Len(r.ids)
    THEN [r EXCEPT !.pc = "get_image", !.i = r.i + 1, !.image = NoImage]
    ELSE Done(r, IF r.route = "delete_image_route" THEN outcome
                 ELSE IF r.successful # {} THEN "success" ELSE "error")

\* the first statement of the handler
delete_begin(s) ==
    /\ req[s].pc = "handler"
    /\ req[s].route \in {"delete_image_route", "delete_multiple_images"}
    /\ req' = [req EXCEPT ![s].pc = "get_image"]
    /\ UNCHANGED <<session, disk, pager, issued, taskVars, probeVars>>
    /\ UNCHANGED <<poolVars, dataVars, schemaVars, envVars, queryVars>>

\* image = get_image_by_id(id); if not image: ...; if image_user_email !=
\* user_email: ...   (1236-1271, 1346-1380): not found and not the owner's are
\* logged and refused; an exception of get_image_by_id leaves
\* delete_image_route and is logged as delete_error by delete_multiple_images
delete_get_image(s) ==
    /\ req[s].pc = "get_image"
    /\ LET r == req[s]
           id == image_id(r)
       IN  \E store \in {"no_connection", "raises", "rows"}, ok \in BOOLEAN :
              LET image == IF store = "rows" /\ \E x \in images : x.id = id
                           THEN CHOOSE x \in images : x.id = id
                           ELSE NoImage
              IN  IF store = "raises" /\ r.route = "delete_image_route"
                  THEN /\ ok
                       /\ req' = [req EXCEPT ![s] = Done(r, "error")]
                       /\ UNCHANGED statistics
                  ELSE IF image = NoImage
                  THEN /\ req' = [req EXCEPT ![s] = next_id(r, "error")]
                       /\ statistics' = route_log("delete_error", r.user_email, id, ok)
                  ELSE IF not_owner(r, image)
                  THEN /\ req' = [req EXCEPT ![s] = next_id(r, "error")]
                       /\ statistics' = route_log("delete_access_denied",
                                                  r.user_email, id, ok)
                  ELSE /\ ok
                       /\ req' = [req EXCEPT ![s].pc = "remove", ![s].image = image]
                       /\ UNCHANGED statistics
    /\ UNCHANGED <<session, disk, pager, issued, taskVars, probeVars>>
    /\ UNCHANGED <<ADMIN_PASSWORD, users, images, next_image_id, open_conns, dpc, call,
                   result>>
    /\ UNCHANGED <<poolVars, schemaVars, envVars, queryVars>>

\* file_path = os.path.join(UPLOAD_FOLDER, user_email, filename);
\* if os.path.exists(file_path): os.remove(file_path)   (1274-1280, 1383-1388);
\* an exception of os.remove is logged as delete_error (1297-1306, 1408-1419)
delete_remove_file(s) ==
    /\ req[s].pc = "remove"
    /\ LET r == req[s]
           path == file_path(r.user_email, r.image.filename)
       IN  \E fs \in {"removed", "raises"}, ok \in BOOLEAN :
              IF fs = "removed"
              THEN /\ ok
                   /\ disk' = disk \ {path}
                   /\ req' = [req EXCEPT ![s].pc = "delete_image",
                                         ![s].removed = @ \cup (disk \cap {path})]
                   /\ UNCHANGED statistics
              ELSE /\ path \in disk
                   /\ req' = [req EXCEPT ![s] = next_id(r, "error")]
                   /\ statistics' = route_log("delete_error", r.user_email,
                                              image_id(r), ok)
                   /\ UNCHANGED disk
    /\ UNCHANGED <<session, pager, issued, taskVars, probeVars>>
    /\ UNCHANGED <<ADMIN_PASSWORD, users, images, next_image_id, open_conns, dpc, call,
                   result>>
    /\ UNCHANGED <<poolVars, schemaVars, envVars, queryVars>>

\* delete_image(id) (1283, 1391; db.py:338-356): False without a connection,
\* which the caller does not look at; then the success is logged and flashed
\* (1286-1295, 1394-1405); an exception of the DELETE is logged as
\* delete_error
delete_delete_image(s) ==
    /\ req[s].pc = "delete_image"
    /\ LET r == req[s]
           id == image_id(r)
       IN  \E store \in {"no_connection", "raises", "rows"}, ok \in BOOLEAN :
              IF store = "raises"
              THEN /\ req' = [req EXCEPT ![s] = next_id(r, "error")]
                   /\ statistics' = route_log("delete_error", r.user_email, id, ok)
                   /\ UNCHANGED images
              ELSE /\ images' = IF store = "rows" THEN images_without(id) ELSE images
                   /\ req' = [req EXCEPT ![s] =
                                next_id([r EXCEPT
                                           !.successful = @ \cup {id},
                                           !.deleted = IF store = "rows"
                                                       THEN @ \cup {id} ELSE @],
                                        "success")]
                   /\ statistics' =
                         LET kept == IF store = "rows" THEN statistics_without_file(id)
                                     ELSE statistics
                         IN  IF ok /\ ~(statistics_ddl = "init_db.py"
                                        /\ ~\E x \in images' : x.id = id)
                             THEN Append(kept, [action_type |-> "delete_success",
                                                user_email |-> looked_up(r.user_email),
                                                file_id |-> id])
                             ELSE kept
    /\ UNCHANGED <<session, disk, pager, issued, taskVars, probeVars>>
    /\ UNCHANGED <<ADMIN_PASSWORD, users, next_image_id, open_conns, dpc, call, result>>
    /\ UNCHANGED <<poolVars, schemaVars, envVars, queryVars>>

(***************************************************************************)
(* celery_app.py: the tasks that retry, process_image_async (78-144) and   *)
(* log_statistics_async (146-183)                                          *)
(***************************************************************************)
Tasks == 1..NumTasks
TaskNames == {"process_image_async", "log_statistics_async"}

\* @celery_app.task(bind=True, max_retries=3) (78, 146)
max_retries == 3

NoTask == [name |-> "none", pc |-> "none", retries |-> 0, executions |-> 0,
           countdowns |-> <<>>, result |-> "none"]

\* a countdown that does not grow with the retries
countdown_flat(name, retries) == IF name = "process_image_async" THEN 60 ELSE 30

\* countdown=60 * (self.request.retries + 1) (139) and
\* countdown=30 * (self.request.retries + 1) (181)
countdown(name, retries) ==
    IF name = "process_image_async" THEN 60 * (retries + 1) ELSE 30 * (retries + 1)

\* the task is sent to the broker; the tasks are numbered in that order
delay(k, name) ==
    /\ task[k].pc = "none"
    /\ \A j \in Tasks : j < k => task[j].pc # "none"
    /\ task' = [task EXCEPT ![k] = [NoTask EXCEPT !.name = name, !.pc = "queued"]]
    /\ UNCHANGED <<broker, pager, issued, routeVars, probeVars>>
    /\ UNCHANGED <<poolVars, dataVars, schemaVars, envVars, queryVars>>

\* a worker takes a message process_image_async has sent with
\* log_statistics_async.delay (119)
receive(k) ==
    /\ broker > 0
    /\ task[k].pc = "none"
    /\ \A j \in Tasks : j < k => task[j].pc # "none"
    /\ task' = [task EXCEPT ![k] = [NoTask EXCEPT !.name = "log_statistics_async",
                                                  !.pc = "queued"]]
    /\ broker' = broker - 1
    /\ UNCHANGED <<pager, issued, routeVars, probeVars>>
    /\ UNCHANGED <<poolVars, dataVars, schemaVars, envVars, queryVars>>

\* if self.request.retries < self.max_retries (138, 180)
may_retry(retries) == retries < max_retries

\* the task after an attempt that has failed: raise self.retry(countdown=...)
\* or return {'status': 'error', ...}   (136-144, 177-183)
failed(t) ==
    IF may_retry(t.retries)
    THEN [t EXCEPT !.pc = "retry", !.executions = @ + 1, !.retries = @ + 1,
                   !.countdowns = Append(@, countdown(t.name, t.retries))]
    ELSE [t EXCEPT !.pc = "done", !.executions = @ + 1, !.result = "error"]

\* the task after an attempt that has succeeded: return {'status': 'success',
\* ...}   (126-133, 172-173)
succeeded(t) == [t EXCEPT !.pc = "done", !.executions = @ + 1, !.result = "success"]

\* a worker executes the task once: process_image_async reads the image and
\* sends a log_statistics_async (90-133); log_statistics_async calls
\* log_statistics and raises when it returns False (161-175)
run(k) ==
    /\ task[k].pc = "queued"
    /\ \E body \in {"returns", "raises"} :
         IF body = "raises"
         THEN /\ task' = [task EXCEPT ![k] = failed(@)]
              /\ UNCHANGED <<broker, statistics>>
         ELSE /\ task' = [task EXCEPT ![k] = succeeded(@)]
              /\ IF task[k].name = "process_image_async"
                 THEN broker' = broker + 1 /\ UNCHANGED statistics
                 ELSE /\ statistics' = route_log("task", NULL, None, TRUE)
                      /\ UNCHANGED broker
    /\ UNCHANGED <<pager, issued, routeVars, probeVars>>
    /\ UNCHANGED <<ADMIN_PASSWORD, users, images, next_image_id, open_conns, dpc, call,
                   result>>
    /\ UNCHANGED <<poolVars, schemaVars, envVars, queryVars>>

\* the countdown of a retry is over: the task is due again
elapse(k) ==
    /\ task[k].pc = "retry"
    /\ task' = [task EXCEPT ![k].pc = "queued"]
    /\ UNCHANGED <<broker, pager, issued, routeVars, probeVars>>
    /\ UNCHANGED <<poolVars, dataVars, schemaVars, envVars, queryVars>>

TasksNext ==
    \E k \in Tasks :
        \/ \E name \in TaskNames : delay(k, name)
        \/ receive(k)
        \/ run(k)
        \/ elapse(k)

(***************************************************************************)
(* The monitoring calls of db_pool.py: DatabasePool.get_stats (149-163),   *)
(* DatabasePool.health_check (165-180), DatabasePool.close_all_connections *)
(* (182-189) and get_pool_metrics (229-243).  health_check runs            *)
(* get_connection (100-147) around its query; the steps of that run are    *)
(* written out here, one library call per step, because the probe has to   *)
(* remember what failed.  A counter update is one step here.               *)
(***************************************************************************)
Failures == {"none", "getconn", "getconn2", "execute"}

NoStats == [pool_size |-> 0, available_connections |-> 0, active_connections |-> 0,
            failed_connections |-> 0, pool_exhausted |-> 0]

NoProbe == [op |-> "none", pool_stats |-> NoStats, failure |-> "none", result |-> NoResult]

\* get_stats(): the counters with pool_size = len(self._pool._pool) and
\* available_connections = the idle connections that are not closed (158-161)
get_stats ==
    [pool_size |-> Len(pool_idle),
     available_connections |->
         Cardinality({i \in DOMAIN pool_idle : ~closed[pool_idle[i]]}),
     active_connections |-> stats.active_connections,
     failed_connections |-> stats.failed_connections,
     pool_exhausted |-> stats.pool_exhausted]

\* the thread is inside health_check or get_pool_metrics
Probing(t) == probe[t].op # "none" /\ probe[t].result = NoResult

\* get_pool_metrics(): stats = db_pool.get_stats() (236); health_check follows
get_pool_metrics(t) ==
    /\ Starts(t)
    /\ probe[t] = NoProbe
    /\ probe' = [probe EXCEPT ![t] = [NoProbe EXCEPT !.op = "get_pool_metrics",
                                                     !.pool_stats = get_stats]]
    /\ pc' = [pc EXCEPT ![t] = "metrics"]
    /\ UNCHANGED <<DB_POOL_MIN, DB_POOL_MAX, pool_idle, pool_used, closed, stats, conn, tmp,
                   raised, lost, pool_closed>>
    /\ UNCHANGED <<dataVars, schemaVars, envVars, queryVars, pager, issued, routeVars,
                   taskVars>>

\* health_check(), called by a thread or by get_pool_metrics (237): `with
\* self.get_connection() as conn` (173) runs conn = self._pool.getconn() (116);
\* an exception of getconn is counted (131, 136) and raised again
health_check(t) ==
    /\ \/ /\ Starts(t)
          /\ probe[t] = NoProbe
       \/ pc[t] = "metrics"
    /\ \E connectOk \in BOOLEAN :
         LET r == getconn(connectOk)
             op == IF pc[t] = "metrics" THEN probe[t].op ELSE "health_check" IN
           /\ pool_idle' = r.idle
           /\ pool_used' = r.used
           /\ IF r.kind = "conn"
              THEN /\ conn' = [conn EXCEPT ![t] = r.c]
                   /\ closed' = [closed EXCEPT ![r.c] = IF r.c \in Range(pool_idle) THEN @ ELSE FALSE]
                   /\ pc' = [pc EXCEPT ![t] = "hc_check"]
                   /\ probe' = [probe EXCEPT ![t].op = op]
                   /\ UNCHANGED stats
              ELSE /\ stats' = [stats EXCEPT !.failed_connections = @ + 1]
                   /\ pc' = [pc EXCEPT ![t] = "hc_finally"]
                   /\ probe' = [probe EXCEPT ![t].op = op, ![t].failure = "getconn"]
                   /\ UNCHANGED <<conn, closed>>
    /\ UNCHANGED <<DB_POOL_MIN, DB_POOL_MAX, tmp, raised, lost, pool_closed>>
    /\ UNCHANGED <<dataVars, schemaVars, envVars, queryVars, pager, issued, routeVars,
                   taskVars>>

\* `if conn.closed: self._pool.putconn(conn, close=True)` (119-121); for an
\* open connection `active_connections += 1` (124) and the yield (125)
hc_check(t) ==
    /\ pc[t] = "hc_check"
    /\ IF closed[conn[t]]
       THEN LET r == putconn(conn[t], TRUE) IN
              /\ pool_idle' = r.idle
              /\ pool_used' = r.used
              /\ pc' = [pc EXCEPT ![t] = "hc_getconn2"]
              /\ UNCHANGED stats
       ELSE /\ stats' = [stats EXCEPT !.active_connections = @ + 1]
            /\ pc' = [pc EXCEPT ![t] = "hc_body"]
            /\ UNCHANGED <<pool_idle, pool_used>>
    /\ UNCHANGED <<DB_POOL_MIN, DB_POOL_MAX, closed, conn, tmp, raised, lost, probeVars>>
    /\ UNCHANGED <<dataVars, schemaVars, envVars, queryVars, pager, issued, routeVars,
                   taskVars>>

\* conn = self._pool.getconn() (122), not tested again; then 124 and the
\* yield.  On an exception conn still names the connection put back at 121.
hc_getconn2(t) ==
    /\ pc[t] = "hc_getconn2"
    /\ \E connectOk \in BOOLEAN :
         LET r == getconn(connectOk) IN
           /\ pool_idle' = r.idle
           /\ pool_used' = r.used
           /\ IF r.kind = "conn"
              THEN /\ conn' = [conn EXCEPT ![t] = r.c]
                   /\ closed' = [closed EXCEPT ![r.c] = IF r.c \in Range(pool_idle) THEN @ ELSE FALSE]
                   /\ stats' = [stats EXCEPT !.active_connections = @ + 1]
                   /\ pc' = [pc EXCEPT ![t] = "hc_body"]
                   /\ UNCHANGED probe
              ELSE /\ stats' = [stats EXCEPT !.failed_connections = @ + 1]
                   /\ pc' = [pc EXCEPT ![t] = "hc_finally"]
                   /\ probe' = [probe EXCEPT ![t].failure = "getconn2"]
                   /\ UNCHANGED <<conn, closed>>
    /\ UNCHANGED <<DB_POOL_MIN, DB_POOL_MAX, tmp, raised, lost, pool_closed>>
    /\ UNCHANGED <<dataVars, schemaVars, envVars, queryVars, pager, issued, routeVars,
                   taskVars>>

\* cursor = conn.cursor(); cursor.execute("SELECT 1"); result =
\* cursor.fetchone() (174-176): a closed connection raises, an open one may
\* (the store does not answer); the exception is thrown into get_connection
\* at the yield, counted (136) and raised again
hc_select(t) ==
    /\ pc[t] = "hc_body"
    /\ \E ok \in BOOLEAN :
         IF ok /\ ~closed[conn[t]]
         THEN UNCHANGED <<stats, probe>>
         ELSE /\ stats' = [stats EXCEPT !.failed_connections = @ + 1]
              /\ probe' = [probe EXCEPT ![t].failure = "execute"]
    /\ pc' = [pc EXCEPT ![t] = "hc_finally"]
    /\ UNCHANGED <<DB_POOL_MIN, DB_POOL_MAX, pool_idle, pool_used, closed, conn, tmp, raised,
                   lost, pool_closed>>
    /\ UNCHANGED <<dataVars, schemaVars, envVars, queryVars, pager, issued, routeVars,
                   taskVars>>

\* `except Exception as e: ... return False` (178-180); without an exception
\* `return result is not None` (177), and SELECT 1 has a row
health_check_reraises(failure) == IF failure = "none" THEN Return(TRUE) ELSE Raise

health_check_returns(failure) == IF failure = "none" THEN Return(TRUE) ELSE Return(FALSE)

\* get_pool_metrics (239-243): the dictionary of health and stats (its
\* timestamp left out); an exception of health_check would go to the caller
pool_metrics(health, pool_stats) ==
    IF health.kind = "raise"
    THEN Raise
    ELSE Return([pool_health |-> health.value, pool_stats |-> pool_stats])

\* the finally clause of get_connection (140-147): self._pool.putconn(conn)
\* and `active_connections -= 1`, an exception of putconn being logged; then
\* health_check returns, and get_pool_metrics after it
hc_finally(t) ==
    /\ pc[t] = "hc_finally"
    /\ IF conn[t] # None
       THEN LET r == putconn(conn[t], FALSE) IN
              /\ pool_idle' = r.idle
              /\ pool_used' = r.used
              /\ closed' = [closed EXCEPT ![conn[t]] = @ \/ r.closes]
              /\ stats' = IF r.kind = "ok"
                          THEN [stats EXCEPT !.active_connections = @ - 1]
                          ELSE stats
       ELSE UNCHANGED <<pool_idle, pool_used, closed, stats>>
    /\ conn' = [conn EXCEPT ![t] = None]
    /\ pc' = [pc EXCEPT ![t] = "returned"]
    /\ LET health == health_check_returns(probe[t].failure) IN
         probe' = [probe EXCEPT ![t].result =
                      IF probe[t].op = "get_pool_metrics"
                      THEN pool_metrics(health, probe[t].pool_stats)
                      ELSE health]
    /\ UNCHANGED <<DB_POOL_MIN, DB_POOL_MAX, tmp, raised, lost, pool_closed>>
    /\ UNCHANGED <<dataVars, schemaVars, envVars, queryVars, pager, issued, routeVars,
                   taskVars>>

\* close_all_connections(): self._pool.closeall() closes every connection,
\* idle or checked out, and marks the pool closed.  cleanup
\* (app.py:2036-2076) calls it from atexit, at the end of the process: it is
\* taken to run when no thread is inside a call.
close_all_connections ==
    /\ ~pool_closed
    /\ \A t \in Threads : pc[t] \in {"out", "compat", "returned"}
    /\ pool_closed' = TRUE
    /\ closed' = [c \in ConnIds |-> closed[c] \/ c \in Range(pool_idle) \cup pool_used]
    /\ UNCHANGED <<DB_POOL_MIN, DB_POOL_MAX, pool_idle, pool_used, stats, pc, conn, tmp,
                   raised, lost, probe>>
    /\ UNCHANGED <<dataVars, schemaVars, envVars, queryVars, pager, issued, routeVars,
                   taskVars>>

\* the probes, with threads that hold connections through connect_db
ProbeNext ==
    \/ \E t \in Threads :
         \/ get_pool_metrics(t)
         \/ health_check(t)
         \/ hc_check(t)
         \/ hc_getconn2(t)
         \/ hc_select(t)
         \/ hc_finally(t)
         \/ connect_db(t)
         \/ close_db(t)
    \/ \E c \in ConnIds : ConnLost(c)
    \/ close_all_connections

\* nothing of the application above the data-access layer is going on
AppQuiet ==

    /\ pager = NoPager
    /\ issued = <<>>
    /\ session = [s \in Browsers |-> NULL]
    /\ req = [s \in Browsers |-> NoReq]
    /\ disk = {}
    /\ task = [k \in Tasks |-> NoTask]
    /\ broker = 0
    /\ pool_closed = FALSE
    /\ probe = [t \in Threads |-> NoProbe]

(***************************************************************************)
(* The schema: db.ensure_schema (db.py:546-642) with the functions it      *)
(* calls, and init_db.main (init_db.py:289-361).  They run one after the   *)
(* other, against whatever an earlier version or run has left.             *)
(***************************************************************************)
OptionalColumns == {"user_email", "expiration_date"}

\* of the state of the data-access functions, what the schema code leaves alone
dataVarsButUsers == <<ADMIN_PASSWORD, images, next_image_id, statistics, open_conns,
                      dpc, call, result>>

\* ALTER TABLE images ADD CONSTRAINT fk_images_user_email FOREIGN KEY
\* (user_email) REFERENCES users(email) ON DELETE SET NULL (db.py:596-600)
alter_on_delete == "SET NULL"

\* FOREIGN KEY (user_email) REFERENCES users(email) ON DELETE CASCADE
\* (db.py:156)
create_on_delete == "CASCADE"

\* the schema ensure_schema builds on an empty database
TargetSchema ==
    /\ tables = {"users", "images", "statistics"}
    /\ images_columns = OptionalColumns
    /\ images_fk = create_on_delete
    /\ statistics_ddl = "db.py"

\* no run of ensure_schema has begun
NoStart == [schema |-> FALSE, admin |-> FALSE, admin_row |-> FALSE]

SchemaInit ==
    /\ CREATE_ADMIN_USER \in BOOLEAN
    /\ tables \in SUBSET {"users", "images", "statistics"}
    /\ images_columns \in SUBSET OptionalColumns
    /\ "images" \notin tables => images_columns = {}
    /\ "user_email" \in images_columns => "users" \in tables
    /\ images_fk = IF "user_email" \in images_columns THEN "CASCADE" ELSE "none"
    /\ statistics_ddl \in {"none", "db.py", "init_db.py"}
    /\ statistics_ddl = "none" <=> "statistics" \notin tables
    /\ statistics_ddl = "init_db.py" => {"users", "images"} \subseteq tables
    /\ spc = "idle"
    /\ runs = 0
    /\ es_result = "none"
    /\ faulted = FALSE
    /\ mutating = {}
    /\ step_failed = FALSE
    /\ start = NoStart
    /\ fresh = (tables = {})

\* ensure_admin_user without its switch
create_admin_always == TRUE

\* create_admin = os.getenv('CREATE_ADMIN_USER', 'false').lower() == 'true'
\* (db.py:697)
create_admin == CREATE_ADMIN_USER

\* ensure_admin_user has nothing to insert: it is switched off or has no
\* password, or users has the administrator's row (697-720)
admin_settled ==
    \/ ~create_admin
    \/ ADMIN_PASSWORD = Unset
    \/ user_exists(ADMIN_EMAIL)

\* except Exception: conn.rollback(); close_db(conn); return False (636-642)
es_abort ==
    /\ spc' = "idle"
    /\ runs' = runs + 1
    /\ es_result' = "False"
    /\ faulted' = TRUE
    /\ step_failed' = TRUE
    /\ fresh' = FALSE

\* conn = connect_db(); if not conn: return False (551-554)
ensure_schema ==
    /\ spc = "idle"
    /\ runs < MaxRuns
    /\ mutating' = {}
    /\ start' = [schema |-> TargetSchema, admin |-> admin_settled,
                 admin_row |-> user_exists(ADMIN_EMAIL)]
    /\ \E ok \in BOOLEAN :
         IF ok
         THEN /\ spc' = "users"
              /\ step_failed' = FALSE
              /\ UNCHANGED <<runs, es_result, faulted, fresh>>
         ELSE es_abort
    /\ UNCHANGED <<CREATE_ADMIN_USER, tables, images_columns, images_fk, statistics_ddl,
                   users>>
    /\ UNCHANGED <<poolVars, dataVarsButUsers, envVars, queryVars, appVars>>

\* a helper whose failure ensure_schema does not see has failed
helper_failed ==
    /\ faulted' = TRUE
    /\ step_failed' = TRUE
    /\ fresh' = FALSE

\* the test for table users and create_table_users() (559-569; db.py:168-209):
\* its return value is not looked at, so a failed connect inside it goes
\* unnoticed; an exception of its CREATE TABLE reaches the except of 636
ensure_schema_users ==
    /\ spc = "users"
    /\ \E ok, connected \in BOOLEAN :
         IF ~ok
         THEN /\ es_abort
              /\ UNCHANGED <<tables, mutating>>
         ELSE /\ IF "users" \in tables
                 THEN UNCHANGED <<tables, mutating, faulted, step_failed, fresh>>
                 ELSE IF connected
                 THEN /\ tables' = tables \cup {"users"}
                      /\ mutating' = mutating \cup {"CREATE"}
                      /\ UNCHANGED <<faulted, step_failed, fresh>>
                 ELSE /\ helper_failed
                      /\ UNCHANGED <<tables, mutating>>
              /\ spc' = "images"
              /\ UNCHANGED <<runs, es_result>>
    /\ UNCHANGED <<CREATE_ADMIN_USER, images_columns, images_fk, statistics_ddl, users,
                   start>>
    /\ UNCHANGED <<poolVars, dataVarsButUsers, envVars, queryVars, appVars>>

\* the test for table images and create_table_images() (571-581;
\* db.py:114-165): CREATE TABLE fails when table users, which its foreign key
\* references, does not exist
ensure_schema_images ==
    /\ spc = "images"
    /\ \E ok, connected \in BOOLEAN :
         IF ~ok \/ ("images" \notin tables /\ connected /\ "users" \notin tables)
         THEN /\ es_abort
              /\ UNCHANGED <<tables, images_columns, images_fk, mutating>>
         ELSE IF "images" \in tables
         THEN /\ spc' = "user_email"
              /\ UNCHANGED <<tables, images_columns, images_fk, runs, es_result, faulted,
                             mutating, step_failed, fresh>>
         ELSE /\ IF connected
                 THEN /\ tables' = tables \cup {"images"}
                      /\ images_columns' = OptionalColumns
                      /\ images_fk' = create_on_delete
                      /\ mutating' = mutating \cup {"CREATE"}
                      /\ UNCHANGED <<faulted, step_failed, fresh>>
                 ELSE /\ helper_failed
                      /\ UNCHANGED <<tables, images_columns, images_fk, mutating>>
              /\ spc' = "statistics"
              /\ UNCHANGED <<runs, es_result>>
    /\ UNCHANGED <<CREATE_ADMIN_USER, statistics_ddl, users, start>>
    /\ UNCHANGED <<poolVars, dataVarsButUsers, envVars, queryVars, appVars>>

\* the ALTER without the test of information_schema.columns before it
column_not_checked(c) == TRUE

\* SELECT EXISTS (SELECT FROM information_schema.columns WHERE ... column_name
\* = c); if not cur.fetchone()[0] (586-594, 605-613)
column_missing(c) == c \notin images_columns

\* table images exists: the test for column user_email; ALTER TABLE images
\* ADD COLUMN user_email TEXT; ADD CONSTRAINT fk_images_user_email FOREIGN KEY
\* (user_email) REFERENCES users(email) ON DELETE SET NULL; commit (583-602)
ensure_schema_user_email ==
    /\ spc = "user_email"
    /\ \E ok \in BOOLEAN :
         IF ~ok \/ (column_missing("user_email") /\ "users" \notin tables)
         THEN /\ es_abort
              /\ UNCHANGED <<images_columns, images_fk, mutating>>
         ELSE /\ IF ~column_missing("user_email")
                 THEN UNCHANGED <<images_columns, images_fk, mutating>>
                 ELSE /\ images_columns' = images_columns \cup {"user_email"}
                      /\ images_fk' = alter_on_delete
                      /\ mutating' = mutating \cup {"ALTER"}
              /\ spc' = "expiration_date"
              /\ UNCHANGED <<runs, es_result, faulted, step_failed, fresh>>
    /\ UNCHANGED <<CREATE_ADMIN_USER, tables, statistics_ddl, users, start>>
    /\ UNCHANGED <<poolVars, dataVarsButUsers, envVars, queryVars, appVars>>

\* the test for column expiration_date; ALTER TABLE images ADD COLUMN
\* expiration_date TIMESTAMP; commit (604-617)
ensure_schema_expiration_date ==
    /\ spc = "expiration_date"
    /\ \E ok \in BOOLEAN :
         IF ~ok
         THEN /\ es_abort
              /\ UNCHANGED <<images_columns, mutating>>
         ELSE /\ images_columns' = images_columns \cup {"expiration_date"}
              /\ mutating' = IF column_missing("expiration_date")
                             THEN mutating \cup {"ALTER"} ELSE mutating
              /\ spc' = "statistics"
              /\ UNCHANGED <<runs, es_result, faulted, step_failed, fresh>>
    /\ UNCHANGED <<CREATE_ADMIN_USER, tables, images_fk, statistics_ddl, users, start>>
    /\ UNCHANGED <<poolVars, dataVarsButUsers, envVars, queryVars, appVars>>

\* the test for table statistics and db.create_table_statistics()
\* (619-629; db.py:645-676), which catches its own exceptions and whose
\* return value is not looked at
ensure_schema_statistics ==
    /\ spc = "statistics"
    /\ \E ok, created \in BOOLEAN :
         IF ~ok
         THEN /\ es_abort
              /\ UNCHANGED <<tables, statistics_ddl, mutating>>
         ELSE /\ IF "statistics" \in tables
                 THEN UNCHANGED <<tables, statistics_ddl, faulted, mutating, step_failed,
                                  fresh>>
                 ELSE IF created
                 THEN /\ tables' = tables \cup {"statistics"}
                      /\ statistics_ddl' = "db.py"
                      /\ mutating' = mutating \cup {"CREATE"}
                      /\ UNCHANGED <<faulted, step_failed, fresh>>
                 ELSE /\ helper_failed
                      /\ UNCHANGED <<tables, statistics_ddl, mutating>>
              /\ spc' = "admin"
              /\ UNCHANGED <<runs, es_result>>
    /\ UNCHANGED <<CREATE_ADMIN_USER, images_columns, images_fk, users, start>>
    /\ UNCHANGED <<poolVars, dataVarsButUsers, envVars, queryVars, appVars>>

\* ensure_admin_user() (db.py:679-738): nothing unless CREATE_ADMIN_USER is
\* true; False when the password is not set; else the administrator's row is
\* inserted if users has none.  It catches its own exceptions (a missing
\* table users, a failing statement) and returns False.  ensure_schema does
\* not look at what it returns: close_db(conn); return True (631-634).
ensure_schema_admin ==
    /\ spc = "admin"
    /\ \E ok \in BOOLEAN :
         IF ~create_admin
         THEN UNCHANGED <<users, faulted, mutating, step_failed, fresh>>
         ELSE IF ADMIN_PASSWORD = Unset
         THEN /\ step_failed' = TRUE
              /\ UNCHANGED <<users, faulted, mutating, fresh>>
         ELSE IF ok /\ "users" \in tables
         THEN /\ IF user_exists(ADMIN_EMAIL)
                 THEN UNCHANGED <<users, mutating>>
                 ELSE /\ users' = Append(users,
                                     [email |-> ADMIN_EMAIL,
                                      password_hash |-> sha256(ADMIN_PASSWORD)])
                      /\ mutating' = mutating \cup {"INSERT"}
              /\ UNCHANGED <<faulted, step_failed, fresh>>
         ELSE /\ faulted' = (faulted \/ ~ok)
              /\ step_failed' = TRUE
              /\ fresh' = (fresh /\ ok)
              /\ UNCHANGED <<users, mutating>>
    /\ spc' = "idle"
    /\ runs' = runs + 1
    /\ es_result' = "True"
    /\ UNCHANGED <<CREATE_ADMIN_USER, tables, images_columns, images_fk, statistics_ddl,
                   start>>
    /\ UNCHANGED <<poolVars, dataVarsButUsers, envVars, queryVars, appVars>>

\* init_db.main (init_db.py:289-361): create_table_users (38-98),
\* create_table_images (100-184), create_table_statistics (186-282), each
\* CREATE TABLE IF NOT EXISTS in a transaction of its own; it stops at the
\* first that fails (done = how many went through).  The statistics table
\* it creates has foreign keys to users and images.
init_db_main ==
    /\ spc = "idle"
    /\ runs < MaxRuns
    /\ runs' = runs + 1
    /\ \E done \in 0..3 :
         /\ tables' = tables \cup (IF done >= 1 THEN {"users"} ELSE {})
                             \cup (IF done >= 2 THEN {"images"} ELSE {})
                             \cup (IF done >= 3 THEN {"statistics"} ELSE {})
         /\ IF done >= 2 /\ "images" \notin tables
            THEN /\ images_columns' = OptionalColumns
                 /\ images_fk' = create_on_delete
            ELSE UNCHANGED <<images_columns, images_fk>>
         /\ statistics_ddl' = IF done >= 3 /\ "statistics" \notin tables
                              THEN "init_db.py" ELSE statistics_ddl
         /\ faulted' = (faulted \/ done < 3)
    /\ fresh' = FALSE
    /\ UNCHANGED <<CREATE_ADMIN_USER, spc, es_result, users, mutating, step_failed, start>>
    /\ UNCHANGED <<poolVars, dataVarsButUsers, envVars, queryVars, appVars>>

\* A row of users is deleted in the store, between runs of ensure_schema (no
\* function of the repository deletes a user).  The foreign keys that
\* reference users(email) act: images.user_email ON DELETE CASCADE (db.py:156)
\* or SET NULL (db.py:599), statistics.user_email ON DELETE SET NULL when
\* init_db.py has made the table (init_db.py:186-282).
delete_user(e) ==
    /\ spc = "idle"
    /\ "users" \in tables
    /\ user_exists(e)
    /\ users' = SelectSeq(users, LAMBDA u : u.email # e)
    /\ images' = IF images_fk = "CASCADE"
                 THEN {r \in images : r.user_email # e}
                 ELSE IF images_fk = "SET NULL"
                 THEN {[r EXCEPT !.user_email = IF @ = e THEN NULL ELSE @] : r \in images}
                 ELSE images
    /\ statistics' = IF statistics_ddl = "init_db.py"
                     THEN [i \in DOMAIN statistics |->
                             [statistics[i] EXCEPT
                                !.user_email = IF @ = e THEN NULL ELSE @,
                                !.file_id = IF \E r \in images' : r.id = @
                                            THEN @ ELSE None]]
                     ELSE statistics
    /\ removed' = removed \cup {e}
    /\ UNCHANGED <<ADMIN_PASSWORD, next_image_id, open_conns, dpc, call, result>>
    /\ UNCHANGED <<poolVars, schemaVars, clock, ticks, files, sweep, queryVars, appVars>>

\* the process is started again with another CREATE_ADMIN_USER in its
\* environment; ensure_admin_user reads it at each call (db.py:697)
set_CREATE_ADMIN_USER(flag) ==
    /\ spc = "idle"
    /\ flag # CREATE_ADMIN_USER
    /\ CREATE_ADMIN_USER' = flag
    /\ UNCHANGED <<tables, images_columns, images_fk, statistics_ddl, spc, runs,
                   es_result, faulted, mutating, step_failed, start, fresh>>
    /\ UNCHANGED <<poolVars, dataVars, envVars, queryVars, appVars>>

SchemaNext ==
    \/ ensure_schema
    \/ ensure_schema_users
    \/ ensure_schema_images
    \/ ensure_schema_user_email
    \/ ensure_schema_expiration_date
    \/ ensure_schema_statistics
    \/ ensure_schema_admin
    \/ init_db_main
    \/ \E e \in Emails : delete_user(e)
    \/ \E flag \in BOOLEAN : set_CREATE_ADMIN_USER(flag)

(***************************************************************************)
(* The store in use: time passes, images expire, and the expiration sweep  *)
(* of the application's start (app.py:1991-2016) and of the task           *)
(* cleanup_expired_images (celery_app.py:185-234) removes them.            *)
(***************************************************************************)
\* the clock is seen to have advanced by j seconds
tick(j) ==
    /\ ticks < MaxTicks
    /\ ticks' = ticks + 1
    /\ clock' = clock + j
    /\ UNCHANGED <<removed, files, sweep>>
    /\ UNCHANGED <<poolVars, dataVars, schemaVars, queryVars, appVars>>

\* expired_images = get_expired_images() (app.py:1992, celery_app.py:197;
\* db.py:527-543): [] when the connect fails; an exception of the SELECT ends
\* the sweep in the outer except (app.py:2017, celery_app.py:232)
sweep_get_expired_images ==
    /\ sweep.pc = "idle"
    /\ \E outcome \in {"no_connection", "raises", "rows"} :
         CASE outcome = "no_connection" ->
                /\ sweep' = [sweep EXCEPT !.pc = "done"]
                /\ UNCHANGED open_conns
           [] outcome = "raises" ->
                /\ sweep' = [sweep EXCEPT !.pc = "done", !.aborted = TRUE]
                /\ open_conns' = db_connect_db(TRUE)
           [] outcome = "rows" ->
                /\ \E rows \in Orders({r \in images : is_expired(r, clock)}) :
                     sweep' = [sweep EXCEPT !.expired_images = rows,
                                            !.pc = IF rows = <<>> THEN "done"
                                                   ELSE "remove"]
                /\ UNCHANGED open_conns
    /\ UNCHANGED <<ADMIN_PASSWORD, users, images, next_image_id, statistics, dpc, call,
                   result>>
    /\ UNCHANGED <<removed, clock, ticks, files>>
    /\ UNCHANGED <<poolVars, schemaVars, queryVars, appVars>>

\* for image in expired_images: the next image, or the end of the loop
\* (app.py:1993, celery_app.py:201)
next_image(sw) ==
    IF sw.i < Len(sw.expired_images)
    THEN [sw EXCEPT !.i = @ + 1, !.pc = "remove"]
    ELSE [sw EXCEPT !.pc = "done"]

\* the loop ended by the first image it fails on
break_loop(sw) == [sw EXCEPT !.pc = "done"]

\* except Exception: ... continue (app.py:2009-2016); except Exception as e:
\* errors.append(...) (celery_app.py:217-218)
continue(sw) == next_image(sw)

\* the image the loop handles
image == sweep.expired_images[sweep.i]

\* if user_email: if os.path.exists(file_path): os.remove(file_path)
\* (app.py:1999-2004, celery_app.py:207-210); os.remove can raise
sweep_remove_file ==
    /\ sweep.pc = "remove"
    /\ IF image.user_email # NULL /\ image.id \in files
       THEN \E ok \in BOOLEAN :
              IF ok
              THEN /\ files' = files \ {image.id}
                   /\ sweep' = [sweep EXCEPT !.pc = "delete"]
              ELSE /\ sweep' = continue([sweep EXCEPT !.errors = @ \cup {image.id}])
                   /\ UNCHANGED files
       ELSE /\ sweep' = [sweep EXCEPT !.pc = "delete"]
            /\ UNCHANGED files
    /\ UNCHANGED <<removed, clock, ticks>>
    /\ UNCHANGED <<poolVars, dataVars, schemaVars, queryVars, appVars>>

\* delete_image(image_id) (app.py:2007, celery_app.py:214; db.py:338-356):
\* False, which the loop does not look at, when the connect fails; an
\* exception of the DELETE is caught by the loop
sweep_delete_image ==
    /\ sweep.pc = "delete"
    /\ \E outcome \in {"no_connection", "raises", "deleted"} :
         CASE outcome = "no_connection" ->
                /\ sweep' = next_image([sweep EXCEPT !.refused = @ \cup {image.id}])
                /\ UNCHANGED <<images, statistics, open_conns>>
           [] outcome = "raises" ->
                /\ sweep' = continue([sweep EXCEPT !.errors = @ \cup {image.id}])
                /\ open_conns' = db_connect_db(TRUE)
                /\ UNCHANGED <<images, statistics>>
           [] outcome = "deleted" ->
                /\ sweep' = next_image(sweep)
                /\ images' = images_without(image.id)
                /\ statistics' = statistics_without_file(image.id)
                /\ UNCHANGED open_conns
    /\ UNCHANGED <<ADMIN_PASSWORD, users, next_image_id, dpc, call, result>>
    /\ UNCHANGED <<removed, clock, ticks, files>>
    /\ UNCHANGED <<poolVars, schemaVars, queryVars, appVars>>

\* the store when the application serves: ensure_schema has made or completed
\* the schema, init_db.py may have made the statistics table, a user is
\* registered, and some uploads have their file on the disk
StoreInit ==
    /\ ADMIN_PASSWORD = Unset
    /\ users = <<[email |-> "a@x.com", password_hash |-> sha256("pw1")]>>
    /\ images = {}
    /\ next_image_id = 1
    /\ statistics = <<>>
    /\ open_conns = 0
    /\ dpc = [t \in Callers |-> "idle"]
    /\ call = [t \in Callers |-> NoCall]
    /\ result = [t \in Callers |-> NoResult]
    /\ CREATE_ADMIN_USER = FALSE
    /\ tables = {"users", "images", "statistics"}
    /\ images_columns = OptionalColumns
    /\ images_fk \in {create_on_delete, alter_on_delete}
    /\ statistics_ddl \in {"db.py", "init_db.py"}
    /\ spc = "idle"
    /\ runs = 0
    /\ es_result = "none"
    /\ faulted = FALSE
    /\ mutating = {}
    /\ step_failed = FALSE
    /\ start = NoStart
    /\ fresh = FALSE
    /\ removed = {}
    /\ clock = Epoch
    /\ ticks = 0
    /\ files \in SUBSET ImageIds
    /\ sweep = NoSweep
    /\ QueryQuiet
    /\ AppQuiet

\* uploads and the query for the expired images, while time passes
ExpiryNext ==
    \/ \E j \in Jumps : tick(j)
    \/ \E t \in Callers :
          \/ \E e \in Owners \cup {NULL}, d \in StorageDays : save_image(t, e, d)
          \/ save_image_execute(t)
          \/ db_read(t, "get_expired_images", NULL, None)
          \/ db_read_execute(t)

\* uploads of a user, time passing, and the sweep
SweepNext ==
    \/ \E j \in Jumps : tick(j)
    \/ sweep_get_expired_images
    \/ sweep_remove_file
    \/ sweep_delete_image
    \/ \E t \in Callers :
          \/ \E e \in Owners, d \in StorageDays : save_image(t, e, d)
          \/ save_image_execute(t)

\* an email no users row has ever had
GHOST == "ghost@x.com"

\* the log written for users that exist, that have never existed and that
\* are deleted in the store meanwhile
LogNext ==
    \/ \E e \in Owners : delete_user(e)
    \/ \E t \in Callers :
          \/ \E e \in Owners \cup {GHOST, NULL}, i \in {None, 1} :
               log_statistics(t, e, i)
          \/ log_statistics_select(t)
          \/ log_statistics_insert(t)

\* logins and requests behind login_required while users are deleted in the
\* store
LoginNext ==
    \/ \E e \in Owners : delete_user(e)
    \/ \E s \in Browsers :
          \/ \E e \in Owners, p \in Passwords : login(s, e, p)
          \/ request(s, "images_list", <<>>, "")
          \/ login_required(s)
          \/ handler(s)

\* a second passes
second ==
    /\ tick(1)
    /\ \A s \in Browsers : req[s].pc \in {"idle", "done"}

\* the lists of ids a browser sends to delete_multiple_images
IdLists == [1..2 -> 1..MaxImages]

\* deletions by the browsers
DeleteNext ==
    \E s \in Browsers :
        \/ \E id \in 1..MaxImages : request(s, "delete_image_route", <<id>>, "")
        \/ \E ids \in IdLists : request(s, "delete_multiple_images", ids, "")
        \/ login_required(s)
        \/ delete_begin(s)
        \/ delete_get_image(s)
        \/ delete_remove_file(s)
        \/ delete_delete_image(s)

\* uploads and deletions by the browsers
WritesNext ==
    \E s \in Browsers :
        \/ \E base_name \in BaseNames : request(s, "upload_file", <<>>, base_name)
        \/ \E id \in 1..MaxImages : request(s, "delete_image_route", <<id>>, "")
        \/ \E ids \in IdLists : request(s, "delete_multiple_images", ids, "")
        \/ login_required(s)
        \/ ps_save_file(s)
        \/ ps_save_image(s)
        \/ ps_select_id(s)
        \/ delete_begin(s)
        \/ delete_get_image(s)
        \/ delete_remove_file(s)
        \/ delete_delete_image(s)

\* uploads of the browsers
UploadNext ==
    \/ second
    \/ \E s \in Browsers :
          \/ \E base_name \in BaseNames : request(s, "upload_file", <<>>, base_name)
          \/ login_required(s)
          \/ ps_save_file(s)
          \/ ps_save_image(s)
          \/ ps_select_id(s)

\* uploads, deletions and the log, and the deletion of a user in the store
CascadeNext ==
    \/ \E e \in Owners : delete_user(e)
    \/ \E t \in Callers :
          \/ \E e \in Owners \cup {NULL} : save_image(t, e, 30)
          \/ save_image_execute(t)
          \/ \E i \in ImageIds : delete_image(t, i)
          \/ delete_image_execute(t)
          \/ \E e \in Owners \cup {NULL}, i \in ImageIds \cup {None} :
               log_statistics(t, e, i)
          \/ log_statistics_select(t)
          \/ log_statistics_insert(t)

(***************************************************************************)
(* The specifications.  Each exercises one part and holds the other parts  *)
(* still.                                                                  *)
(***************************************************************************)
\* the pool while the rest runs: db.py and admin_db.py do not use it
PoolQuiet ==
    /\ DB_POOL_MIN = 0
    /\ DB_POOL_MAX = 1
    /\ pool_idle = <<>>
    /\ pool_used = {}
    /\ closed = [c \in ConnIds |-> TRUE]
    /\ stats = [active_connections |-> 0, failed_connections |-> 0, pool_exhausted |-> 0]
    /\ pc = [t \in Threads |-> "out"]
    /\ conn = [t \in Threads |-> None]
    /\ tmp = [t \in Threads |-> 0]
    /\ raised = [t \in Threads |-> "none"]
    /\ lost = 0

\* no data-access call has been made
DataQuiet ==
    /\ users = <<>>
    /\ images = {}
    /\ next_image_id = 1
    /\ statistics = <<>>
    /\ open_conns = 0
    /\ dpc = [t \in Callers |-> "idle"]
    /\ call = [t \in Callers |-> NoCall]
    /\ result = [t \in Callers |-> NoResult]

\* the schema as a first ensure_schema on an empty database leaves it
SchemaQuiet ==
    /\ CREATE_ADMIN_USER = FALSE
    /\ tables = {"users", "images", "statistics"}
    /\ images_columns = OptionalColumns
    /\ images_fk = create_on_delete
    /\ statistics_ddl = "db.py"
    /\ spc = "idle"
    /\ runs = 0
    /\ es_result = "none"
    /\ faulted = FALSE
    /\ mutating = {}
    /\ step_failed = FALSE
    /\ start = NoStart
    /\ fresh = FALSE

\* nothing has been done to the store by hand
EnvQuiet ==
    /\ removed = {}
    /\ clock = Epoch
    /\ ticks = 0
    /\ files = {}
    /\ sweep = NoSweep
    /\ QueryQuiet
    /\ AppQuiet

vars == <<poolVars, dataVars, schemaVars, envVars, queryVars, appVars>>

Init == PoolInit /\ DataQuiet /\ ADMIN_PASSWORD = Unset /\ SchemaQuiet /\ EnvQuiet

Next == PoolNext

Spec == Init /\ [][Next]_vars

\* the pool with room for one connection more, and a store that may restart
InitReuse ==
    /\ DB_POOL_MAX = MaxPoolSize + 1
    /\ DB_POOL_MIN \in 0..DB_POOL_MAX
    /\ pool_idle = [i \in 1..DB_POOL_MIN |-> i]
    /\ pool_used = {}
    /\ closed = [c \in ConnIds |-> ~(c \in 1..DB_POOL_MIN)]
    /\ stats = [active_connections |-> 0, failed_connections |-> 0, pool_exhausted |-> 0]
    /\ pc = [t \in Threads |-> "out"]
    /\ conn = [t \in Threads |-> None]
    /\ tmp = [t \in Threads |-> 0]
    /\ raised = [t \in Threads |-> "none"]
    /\ lost = 0
    /\ DataQuiet /\ ADMIN_PASSWORD = Unset /\ SchemaQuiet /\ EnvQuiet

ReuseNext == PoolNext \/ StoreRestarts

SpecReuse == InitReuse /\ [][ReuseNext]_vars

SpecProbe == Init /\ [][ProbeNext]_vars

InitData == DataInit /\ PoolQuiet /\ SchemaQuiet /\ EnvQuiet

SpecData == InitData /\ [][DataNext]_vars

InitSchema ==
    /\ SchemaInit
    /\ PoolQuiet
    /\ DataQuiet
    /\ ADMIN_PASSWORD \in {Unset, "pw1"}
    /\ EnvQuiet

SpecSchema == InitSchema /\ [][SchemaNext]_vars

InitExpiry == StoreInit /\ PoolQuiet /\ TargetSchema /\ files = {}

SpecExpiry == InitExpiry /\ [][ExpiryNext]_vars

InitSweep == StoreInit /\ PoolQuiet /\ TargetSchema

SpecSweep == InitSweep /\ [][SweepNext]_vars

InitCascade == StoreInit /\ PoolQuiet /\ files = {}

SpecCascade == InitCascade /\ [][CascadeNext]_vars

InitLog == StoreInit /\ PoolQuiet /\ files = {}

SpecLog == InitLog /\ [][LogNext]_vars

InitLogin == StoreInit /\ PoolQuiet /\ files = {}

SpecLogin == InitLogin /\ [][LoginNext]_vars

\* no task has been sent
InitTasks ==
    PoolQuiet /\ DataQuiet /\ ADMIN_PASSWORD = Unset /\ SchemaQuiet /\ EnvQuiet

SpecTasks == InitTasks /\ [][TasksNext]_vars

\* a task that is due is executed, and a countdown ends
TasksFair == \A k \in Tasks : WF_vars(run(k)) /\ WF_vars(elapse(k))

SpecTasksFair == SpecTasks /\ TasksFair

\* the accounts exist, the browsers are logged in, nothing is uploaded
RoutesInit ==
    /\ PoolQuiet
    /\ ADMIN_PASSWORD = Unset
    /\ users = <<[email |-> "a@x.com", password_hash |-> sha256("pw1")],
                 [email |-> "b@x.com", password_hash |-> sha256("pw2")]>>
    /\ next_image_id = Cardinality(images) + 1
    /\ statistics = <<>>
    /\ open_conns = 0
    /\ dpc = [t \in Callers |-> "idle"]
    /\ call = [t \in Callers |-> NoCall]
    /\ result = [t \in Callers |-> NoResult]
    /\ SchemaQuiet
    /\ removed = {}
    /\ clock = Epoch
    /\ ticks = 0
    /\ files = {}
    /\ sweep = NoSweep
    /\ QueryQuiet
    /\ pager = NoPager
    /\ issued = <<>>
    /\ task = [k \in Tasks |-> NoTask]
    /\ broker = 0
    /\ pool_closed = FALSE
    /\ probe = [t \in Threads |-> NoProbe]
    /\ session \in [Browsers -> Accounts]
    /\ session[1] = "a@x.com"
    /\ req = [s \in Browsers |-> NoReq]

InitUpload == images = {} /\ disk = {} /\ RoutesInit

\* the tables of images the uploads of the accounts have left: two rows of
\* one user or of both, whose files were named in the same second
Uploads ==
    {{[id |-> k, user_email |-> own[k], upload_time |-> Epoch,
       expiration_date |-> Epoch + 30 * Day,
       filename |-> new_filename_at("cat", Epoch)] : k \in 1..2} :
     own \in {<<"a@x.com", "a@x.com">>, <<"a@x.com", "b@x.com">>}}

\* the files of the rows
files_of(rows) == {file_path(r.user_email, r.filename) : r \in rows}

InitDelete == images \in Uploads /\ disk = files_of(images) /\ RoutesInit

SpecDelete == InitDelete /\ [][DeleteNext]_vars

SpecWrites == InitDelete /\ [][WritesNext]_vars

SpecUpload == InitUpload /\ [][UploadNext]_vars

\* any small statistics table, and nothing else going on
InitFilters ==
    /\ PoolQuiet
    /\ ADMIN_PASSWORD = Unset
    /\ users = <<>>
    /\ images = {}
    /\ next_image_id = 1
    /\ statistics \in Tables
    /\ open_conns = 0
    /\ dpc = [t \in Callers |-> "idle"]
    /\ call = [t \in Callers |-> NoCall]
    /\ result = [t \in Callers |-> NoResult]
    /\ SchemaQuiet
    /\ EnvQuiet

SpecFilters == InitFilters /\ [][FiltersNext]_vars

\* any small table of images, and a client that has not begun to read
InitPages ==
    /\ PoolQuiet
    /\ ADMIN_PASSWORD = Unset
    /\ users = <<[email |-> "a@x.com", password_hash |-> sha256("pw1")]>>
    /\ images \in Snapshots
    /\ next_image_id = Cardinality(images) + 1
    /\ statistics = <<>>
    /\ open_conns = 0
    /\ dpc = [t \in Callers |-> "idle"]
    /\ call = [t \in Callers |-> NoCall]
    /\ result = [t \in Callers |-> NoResult]
    /\ SchemaQuiet
    /\ EnvQuiet

SpecPages == InitPages /\ [][PagesNext]_vars

\* no query has been issued
InitQueries ==
    PoolQuiet /\ DataQuiet /\ ADMIN_PASSWORD = Unset /\ SchemaQuiet /\ EnvQuiet

SpecQueries == InitQueries /\ [][QueriesNext]_vars

(***************************************************************************)
(* Properties of the pool (checked under Spec)                             *)
(***************************************************************************)
\* a thread is between its acquire and its release
Holding(t) ==
    /\ conn[t] # None
    /\ pc[t] \in {"check", "inc_r", "inc_w", "body", "except_r", "except_w", "finally",
                  "compat"}

\* every thread is outside get_connection / connect_db..close_db
AllLeft == \A t \in Threads : pc[t] \in {"out", "done", "returned"}

\* no thread is inside get_connection and none has used connect_db / close_db
CyclesOver == \A t \in Threads : pc[t] \in {"out", "done"}

\* thread t takes a step in which its getconn raises the pool's own error
AcquireRefused(t) ==
    /\ pc[t] \in {"out", "getconn2"}
    /\ pc'[t] = "except_r"
    /\ raised'[t] = "PoolError"

\* C1: for every DB_POOL_MIN <= DB_POOL_MAX and every interleaving, the idle
\* plus the checked-out connections of the pool never exceed DB_POOL_MAX, and
\* the pool refuses an acquire only when DB_POOL_MAX connections are checked
\* out (a connect the store itself refuses is not the pool's refusal).
C1_PoolWithinMax ==
    /\ [](Len(pool_idle) + Cardinality(pool_used) <= DB_POOL_MAX)
    /\ [][\A t \in Threads :
            AcquireRefused(t) => Cardinality(pool_used) = DB_POOL_MAX]_vars

\* the pool is full and has refused a thread
C1_Witness ==
    \E t \in Threads :
        /\ raised[t] = "PoolError"
        /\ Cardinality(pool_used) = DB_POOL_MAX
        /\ Len(pool_idle) + Cardinality(pool_used) = DB_POOL_MAX

\* C2: every connection checked out through get_connection() belongs to a
\* thread that has not yet run its release, on every path (normal end of the
\* block, exception in the block, exception while acquiring); so once all
\* threads have left, no connection is checked out.
C2_AlwaysReturned ==
    /\ \A c \in pool_used : \E t \in Threads : Holding(t) /\ conn[t] = c
    /\ AllLeft => pool_used = {}

\* one thread has left and another, whose block raised, has given its
\* connection back
C2_Witness ==
    \E t, u \in Threads :
        /\ pc[t] = "dec_r" /\ raised[t] = "Exception" /\ conn[t] \notin pool_used
        /\ pc[u] = "done"
        /\ pool_used = {}

\* C3: when DB_POOL_MAX connections are checked out, a further
\* get_connection() fails at once and the failure is recorded in the
\* pool_exhausted counter, not only in failed_connections.
C3_ExhaustionCounted ==
    \A t \in Threads :
        (raised[t] = "PoolError" /\ pc[t] = "finally") => stats.pool_exhausted > 0

\* C4: a connection is held by at most one thread between its acquire and
\* its release, and a held connection is not in the idle list, which holds
\* no connection twice.
C4_ExclusiveOwner ==
    /\ \A t, u \in Threads :
         (t # u /\ Holding(t) /\ Holding(u)) => conn[t] # conn[u]
    /\ \A t \in Threads : Holding(t) => conn[t] \notin Range(pool_idle)
    /\ \A i, j \in DOMAIN pool_idle : pool_idle[i] = pool_idle[j] => i = j

\* a connection one thread has released is now held by another thread
C4_Witness ==
    \E t, u \in Threads :
        /\ t # u
        /\ pc[t] \in {"dec_r", "dec_w"}
        /\ Holding(u)
        /\ conn[u] = conn[t]

\* C5: over acquire/release cycles, also with a broken connection or a block
\* that raises, active_connections is not greater than the number of
\* connections checked out, and once the cycles are over the idle list is as
\* long as before them.
C5_CountsStable ==
    CyclesOver =>
        /\ stats.active_connections <= Cardinality(pool_used)
        /\ Len(pool_idle) = DB_POOL_MIN

\* C6: the counters are updated under the lock, so no update is lost: once
\* every thread has released its connection, active_connections is 0.
C6_NoLostUpdate ==
    AllLeft => stats.active_connections = 0

(***************************************************************************)
(* Properties of the data-access functions (checked under SpecData)        *)
(***************************************************************************)
\* no caller is inside a data-access function
AllReturned == \A t \in Callers : dpc[t] \in {"idle", "returned"}

\* register_user(e, p) of caller t has returned success
Registered(t) ==
    /\ call[t].f = "register_user"
    /\ result[t] = Return(<<TRUE, "registered">>)

\* C7: no data-access function lets an exception of the store reach its
\* caller: every call ends with a return value.
C7_NoExceptionEscapes ==
    \A t \in Callers : result[t].kind # "raise"

\* C8: every data-access function closes the connection it opened on every
\* exit path: when no call is running, no connection is open.
C8_ConnectionsClosed ==
    AllReturned => open_conns = 0

\* C9: under any interleaving of register_user calls the users table has at
\* most one row per email; a successful registration leaves the row with the
\* hash of its password, no later call changes or removes it, no second call
\* for the same email succeeds, and a call that finds the row answers
\* "already exists" (unless the store fails its SELECT).
C9_OneRowPerEmail ==
    /\ [](\A i, j \in DOMAIN users : users[i].email = users[j].email => i = j)
    /\ [](\A t \in Callers :
            Registered(t) =>
                \E i \in DOMAIN users :
                    users[i] = [email |-> call[t].email,
                                password_hash |-> sha256(call[t].password)])
    /\ [](\A t, u \in Callers :
            (t # u /\ Registered(t) /\ Registered(u)) => call[t].email # call[u].email)
    /\ [][\A i \in DOMAIN users : i \in DOMAIN users' /\ users'[i] = users[i]]_vars
    /\ [][\A t \in Callers :
            (dpc[t] = "reg_select" /\ user_exists(call[t].email) /\ dpc'[t] # dpc[t])
                => /\ dpc'[t] = "returned"
                   /\ result'[t] \in {Raise, Return(<<FALSE, "already_exists">>)}]_vars

\* register("a@x.com", "pw1") has succeeded, register("a@x.com", "pw2") has
\* been told the user exists, and the one row has the hash of "pw1"
C9_Witness ==
    \E t, u \in Callers :
        /\ Registered(t)
        /\ call[t].email = "a@x.com" /\ call[t].password = "pw1"
        /\ call[u].f = "register_user"
        /\ call[u].email = "a@x.com" /\ call[u].password = "pw2"
        /\ result[u] = Return(<<FALSE, "already_exists">>)
        /\ users = <<[email |-> "a@x.com", password_hash |-> sha256("pw1")]>>

(***************************************************************************)
(* Properties of the schema code (checked under SpecSchema)                *)
(***************************************************************************)
\* C10: from every prior state of the database, once ensure_schema has run
\* (any number of times) and returned True with the store working, the schema
\* is the same target: the same tables, columns and foreign keys, with the
\* same ON DELETE action on images.user_email.
C10_SameTargetSchema ==
    (spc = "idle" /\ es_result = "True" /\ ~faulted) => TargetSchema

\* the first half of C11: a database that was empty has the target schema
\* after one run of ensure_schema and after two
FreshRunsAgree ==
    (fresh /\ spc = "idle" /\ runs >= 1) => TargetSchema

\* C11 as stated: ensure_schema run twice on an empty database leaves the
\* tables, columns and constraints one run leaves, and a run that begins on a
\* database with the target schema executes no CREATE, ALTER or INSERT.
C11_NoMutationOnTarget ==
    /\ FreshRunsAgree
    /\ start.schema => mutating = {}

\* C11, amended: ensure_schema run twice on an empty database leaves the
\* tables, columns and constraints one run leaves, and a run that begins on a
\* database with the target schema executes no CREATE and no ALTER; it
\* executes no INSERT either when ensure_admin_user is switched off or has
\* no password or the administrator's row is there already.
C11_NoMutationOnSettled ==
    /\ FreshRunsAgree
    /\ start.schema => mutating \subseteq {"INSERT"}
    /\ (start.schema /\ start.admin) => mutating = {}

\* the second of two runs on an empty database, with the administrator asked
\* for: it began on the target schema with the administrator's row and has
\* ended without a mutating statement
C11_Witness ==
    /\ fresh /\ runs = 2 /\ spc = "idle" /\ es_result = "True"
    /\ CREATE_ADMIN_USER /\ user_exists(ADMIN_EMAIL)
    /\ start.schema /\ start.admin
    /\ mutating = {}
    /\ TargetSchema

\* C12: if a step of ensure_schema fails (a table-creation helper cannot
\* connect or raises, an ALTER raises, ensure_admin_user fails), ensure_schema
\* reports the failure: it returns True only if every step has succeeded.
C12_FailureReported ==
    (spc = "idle" /\ es_result = "True") => ~step_failed

\* the rows of users with the administrator's email
admin_rows == {i \in DOMAIN users : users[i].email = ADMIN_EMAIL}

\* C13: ensure_admin_user is gated by CREATE_ADMIN_USER.  While the flag is
\* not true no step of ensure_schema writes to users, so a deleted
\* administrator is not created again; users never has two rows with the
\* administrator's email; and when the flag is true and the password is set,
\* every run of ensure_schema that ends without a failed step leaves exactly
\* one such row.
C13_AdminGated ==
    /\ [][(~CREATE_ADMIN_USER /\ spc # "idle") => users' = users]_vars
    /\ [](Cardinality(admin_rows) <= 1)
    /\ [][(spc = "admin" /\ spc' = "idle" /\ CREATE_ADMIN_USER
               /\ ADMIN_PASSWORD # Unset /\ ~step_failed')
            => \E i \in DOMAIN users' :
                  \A j \in DOMAIN users' : users'[j].email = ADMIN_EMAIL <=> j = i]_vars

\* the administrator's row, made by a first run, has been deleted; a second
\* run with CREATE_ADMIN_USER off began without the row and has ended
\* without it
C13_Witness ==
    /\ ~CREATE_ADMIN_USER /\ ADMIN_PASSWORD # Unset
    /\ ADMIN_EMAIL \in removed
    /\ runs = 2 /\ spc = "idle" /\ es_result = "True" /\ ~step_failed
    /\ ~start.admin_row
    /\ admin_rows = {}

(***************************************************************************)
(* Properties of the expiration dates (checked under SpecExpiry)           *)
(***************************************************************************)
\* save_image of caller t has returned True
Saved(t) ==
    /\ call[t].f = "save_image"
    /\ result[t] = Return(<<"bool", TRUE>>)

\* C14: save_image called with an owner, upload time T and storage_days = d
\* stores expiration_date = T + d days exactly, from the upload time passed
\* in and not from another reading of the clock; called with no owner it
\* stores expiration_date = NULL.
C14_ExpirationFromUploadTime ==
    \A t \in Callers :
        Saved(t) =>
            \E r \in images :
                /\ r.user_email = call[t].email
                /\ r.upload_time = call[t].upload_time
                /\ r.expiration_date =
                      IF call[t].email # NULL
                      THEN call[t].upload_time + call[t].storage_days * Day
                      ELSE None

\* caller t takes the step in which its get_expired_images gets the rows of
\* its SELECT
ExpiredReturned(t) ==
    /\ dpc[t] = "db_read"
    /\ call[t].f = "get_expired_images"
    /\ result'[t].kind = "return"

\* C15: get_expired_images whose SELECT runs at time T returns exactly the
\* rows of images whose expiration_date is not NULL and less than T: a row
\* with expiration_date = T - 1s is in the result, a row with expiration_date
\* = T, = T + 1s or NULL is not.
C15_ExpiredExactly ==
    [][\A t \in Callers :
         ExpiredReturned(t) =>
            /\ result'[t].value[2] \subseteq {r.id : r \in images}
            /\ \A r \in images :
                 /\ r.expiration_date = None => r.id \notin result'[t].value[2]
                 /\ (r.expiration_date # None /\ r.expiration_date <= clock - 1)
                        => r.id \in result'[t].value[2]
                 /\ r.expiration_date >= clock => r.id \notin result'[t].value[2]]_vars

\* get_expired_images has returned a row whose expiration_date is one second
\* before the clock
C15_Witness ==
    \E t \in Callers :
        /\ call[t].f = "get_expired_images"
        /\ result[t].kind = "return"
        /\ \E r \in images :
              /\ r.expiration_date = clock - 1
              /\ r.id \in result[t].value[2]

(***************************************************************************)
(* Properties of the expiration sweep (checked under SpecSweep)            *)
(***************************************************************************)
\* the sweep has not deleted, or has not tried to delete, the image with
\* this id: its file's removal or its DELETE raised, or delete_image found
\* no connection
SweepFailedOn(id) == id \in sweep.errors \cup sweep.refused

\* C16: a failure while the sweep handles one expired image (the removal of
\* its file or the deletion of its row raising) does not end the sweep: once
\* the sweep is over, every image get_expired_images gave it on which it did
\* not fail has neither its row nor its file.
C16_SweepGoesOn ==
    (sweep.pc = "done" /\ ~sweep.aborted) =>
        \A k \in DOMAIN sweep.expired_images :
            ~SweepFailedOn(sweep.expired_images[k].id) =>
                /\ ~\E r \in images : r.id = sweep.expired_images[k].id
                /\ sweep.expired_images[k].id \notin files

\* the sweep is over: the first of its two images raised, the second has
\* lost its file and its row
C16_Witness ==
    /\ sweep.pc = "done"
    /\ Len(sweep.expired_images) = 2
    /\ sweep.expired_images[1].id \in sweep.errors
    /\ ~SweepFailedOn(sweep.expired_images[2].id)
    /\ images = {r \in images : r.id = sweep.expired_images[1].id}
    /\ images # {}
    /\ files = {}

(***************************************************************************)
(* Properties of the foreign keys (checked under SpecCascade)              *)
(***************************************************************************)
\* C17: deleting a users row deletes every images row owned by that user,
\* whichever path has made the images table or its user_email column.
C17_ImagesCascade ==
    [][\A e \in Owners :
         (user_exists(e) /\ ~\E i \in DOMAIN users' : users'[i].email = e) =>
            \A r \in images :
                r.user_email = e => ~\E q \in images' : q.id = r.id]_vars

\* C18: the statistics table is append-only: no operation deletes a row that
\* log_statistics has inserted or changes one of its fields.
C18_StatisticsAppendOnly ==
    [][\A i \in DOMAIN statistics :
         i \in DOMAIN statistics' /\ statistics'[i] = statistics[i]]_vars

(***************************************************************************)
(* Properties of the statistics filters (checked under SpecFilters)        *)
(***************************************************************************)
\* the emails a list filter names once its empty and blank entries are
\* dropped
Members(text) ==
    {e \in RowEmails : \E k \in DOMAIN user_list(text) : user_list(text)[k] = <<e>>}

\* the filter is a list
IsList(user_email) == user_email # <<>> /\ Head(user_email) = "CUSTOM_LIST:"

\* the rows the filters ask for: the action type, and the guest rows
\* (user_email IS NULL), the active rows (user_email present and matching
\* neither the example.com nor the admin pattern), the rows of the members of
\* the list, or the rows of the one email
Wanted(action_type, user_email) ==
    {i \in DOMAIN statistics :
        /\ action_type # "" => statistics[i].action_type = action_type
        /\ user_email # <<>> =>
             CASE user_email = <<GUEST>> -> statistics[i].user_email = NULL
               [] user_email = <<"ACTIVE_USERS">> ->
                    /\ statistics[i].user_email # NULL
                    /\ ~like(statistics[i].user_email, "example.com")
                    /\ ~like(lower(statistics[i].user_email), "admin")
               [] IsList(user_email) ->
                    statistics[i].user_email \in Members(Tail(user_email))
               [] OTHER -> user_email = <<statistics[i].user_email>>}

\* both functions have answered, the store has not failed them, and the page
\* asked for holds the whole table
Answered ==
    /\ found.pc = "done"
    /\ ~found.failed
    /\ query.offset = 0
    /\ query.limit >= Len(statistics)

\* what the two functions gave is the set of rows S
FoundIs(S) ==
    /\ {found.rows[k] : k \in DOMAIN found.rows} = S
    /\ Len(found.rows) = Cardinality(S)
    /\ found.count = Cardinality(S)

\* C19: for every filter combination (none; action type only; user = one
\* email, = the guest value, = ACTIVE_USERS, = a list; each with or without
\* an action type) get_statistics_with_filters and get_statistics_count give
\* all and only the rows that satisfy every active filter; with no filter,
\* the whole table.  (A list that names nobody is left to C20.)
C19_FiltersExact ==
    (Answered /\ ~(IsList(query.user_email) /\ Members(Tail(query.user_email)) = {}))
        => FoundIs(Wanted(query.action_type, query.user_email))

\* C20: a list filter selects exactly the rows whose user_email is a member
\* of the list parsed from it, empty and blank entries dropped; also when
\* every entry is empty or blank and the parsed list is empty.
C20_ListExact ==
    (Answered /\ IsList(query.user_email))
        => FoundIs(Wanted(query.action_type, query.user_email))

(***************************************************************************)
(* Properties of the lists read page by page (checked under SpecPages)     *)
(***************************************************************************)
\* the client has read the pages 1..ceil(N/P) and every call reached the store
AllPagesRead ==
    /\ pager.f # "none"
    /\ ~pager.refused
    /\ pager.page > total_pages(Cardinality(listed(pager.f, pager.email)),
                                pager.per_page)

\* C21: for a fixed snapshot and any page size, the pages 1..ceil(N/P) of a
\* list put one after the other hold every row exactly once, in the order of
\* the sort column, also when rows share a value of that column
C21_PagesPartition ==
    AllPagesRead =>
        pager.got \in OrderedBy(listed(pager.f, pager.email),
                                sorted_by(pager.f, pager.sort_by))

(***************************************************************************)
(* Properties of log_statistics (checked under SpecLog)                    *)
(***************************************************************************)
\* caller t's log_statistics runs its INSERT and returns in this step
LogReturns(t) == dpc[t] = "log_insert" /\ dpc'[t] = "returned"

\* the row caller t's log_statistics has appended in this step
LoggedRow == statistics'[Len(statistics')]

C23_TextIndependent ==
    \A i, j \in DOMAIN issued :
        (issued[i].f = issued[j].f /\ issued[i].branches = issued[j].branches)
            => issued[i].text = issued[j].text

(***************************************************************************)
(* Properties of login_required (checked under SpecLogin)                  *)
(***************************************************************************)
\* browser s's request leaves login_required in this step
Checked(s) == req[s].pc = "login_required" /\ req'[s].pc # "login_required"

\* the handler runs only behind a check that found user_email in the session
\* and a users row for it; every other request is redirected to login
OnlyMembersPass ==
    \A s \in Browsers :
        Checked(s) =>
            IF session[s] # NULL /\ user_exists(session[s])
                  /\ req'[s].check = "exists"
            THEN req'[s].pc = "handler" /\ session'[s] = session[s]
            ELSE req'[s].pc = "done" /\ req'[s].outcome = "redirect_login"

Uploaded(s) == req[s].route = "upload_file" /\ req[s].outcome = "success"

\* C29: the server filenames of any two uploads differ, so that the file_id
\* an upload reads back after save_image and logs is the id of the images
\* row this same upload has inserted
C29_OwnRowReadBack ==
    /\ \A r, q \in images : r.id # q.id => r.filename # q.filename
    /\ \A s \in Browsers :
          (Uploaded(s) /\ req[s].saved # None) => req[s].file_id = req[s].saved

(***************************************************************************)
(* Properties of the deletions (checked under SpecDelete)                  *)
(***************************************************************************)
\* browser s's handler takes a step
Steps(s) == req'[s] # req[s]

C24_FailureNotSuccess ==
    \A s \in Browsers :
        /\ Uploaded(s) => req[s].saved # None
        /\ req[s].successful \subseteq req[s].deleted

(***************************************************************************)
(* Properties of the retrying tasks (checked under SpecTasksFair)          *)
(***************************************************************************)
\* the countdowns a task with this name has had for its retries 0, 1, ...
CountdownsAre(t, base) ==
    \A i \in DOMAIN t.countdowns : t.countdowns[i] = base * i

\* C30: the retrying tasks terminate: a task is executed at most
\* max_retries + 1 = 4 times, retry number k is scheduled with a countdown
\* of 30 * (k + 1) seconds (60 * (k + 1) for process_image_async), the last
\* failing attempt returns status 'error', a success ends the task, and every
\* task that is due comes to its end
C30_RetriesTerminate ==
    /\ [](\A k \in Tasks :
            LET t == task[k]
            IN  /\ t.executions <= 4
                /\ t.retries <= 3
                /\ Len(t.countdowns) = t.retries
                /\ CountdownsAre(t, IF t.name = "process_image_async" THEN 60 ELSE 30)
                /\ t.result = "error" =>
                      (t.pc = "done" /\ t.executions = 4 /\ t.retries = 3)
                /\ t.result = "success" => t.pc = "done"
                /\ t.pc = "done" => t.result \in {"success", "error"})
    /\ [][\A k \in Tasks : task[k].pc = "done" => task'[k] = task[k]]_vars
    /\ \A k \in Tasks : (task[k].pc = "queued") ~> (task[k].pc = "done")

\* a process_image_async has failed four times and returned an error after the
\* countdowns 60, 120, 180; another task has succeeded at its second attempt
C30_Witness ==
    \E k, j \in Tasks :
        /\ task[k].name = "process_image_async"
        /\ task[k].result = "error" /\ task[k].executions = 4
        /\ task[k].countdowns = <<60, 120, 180>>
        /\ task[j].result = "success" /\ task[j].executions = 2
        /\ task[j].countdowns = <<30>>

(***************************************************************************)
(* Properties of the pool's handling of closed connections (SpecReuse)     *)
(***************************************************************************)
\* the connections the pool has, idle or checked out
live == Len(pool_idle) + Cardinality(pool_used)

\* the step in which get_connection gives conn[t] back in its finally clause
Releases(t) == pc[t] \in {"body", "finally"} /\ pc'[t] \in {"dec_r", "done"} /\ conn[t] # None

\* the step after which get_connection counts conn'[t] and yields it
Obtains(t) == pc[t] \in {"check", "getconn2"} /\ pc'[t] \in {"inc_w", "inc_r"}

\* C25: a connection that is closed when get_connection releases it is not
\* put back into the idle list and the pool has one live connection less;
\* after a release no closed connection is in the idle list; and the
\* connection get_connection goes on to yield is not closed.
C25_ClosedNeverReused ==
    /\ [][\A t \in Threads :
            (Releases(t) /\ conn[t] \in pool_used /\ closed[conn[t]]) =>
                /\ conn[t] \notin Range(pool_idle')
                /\ live' = live - 1]_vars
    /\ [][\A t \in Threads :
            Releases(t) => \A i \in DOMAIN pool_idle' : ~closed'[pool_idle'[i]]]_vars
    /\ [][\A t \in Threads : Obtains(t) => ~closed'[conn'[t]]]_vars

(***************************************************************************)
(* Properties of the monitoring calls (SpecProbe)                          *)
(***************************************************************************)
\* the connection a thread refers to, as a set
Held(c) == IF c = None THEN {} ELSE {c}

\* a step of a health_check or get_pool_metrics call of thread t
ProbeStep(t) == pc'[t] # pc[t] /\ probe'[t].op # "none"

\* C26: health_check() and get_pool_metrics() return and never raise, with
\* the pool healthy, exhausted, closed or the store unreachable; when
\* something failed inside, health_check returns False and pool_health is
\* False; and a probe changes the checked-out set by its own connection only,
\* which is no longer checked out when the probe returns.
C26_ProbesNeverRaise ==
    /\ [](\A t \in Threads :
            /\ probe[t].result.kind \in {"none", "return"}
            /\ (probe[t].result.kind = "return" /\ probe[t].failure # "none") =>
                   IF probe[t].op = "get_pool_metrics"
                   THEN probe[t].result.value.pool_health = FALSE
                   ELSE probe[t].result.value = FALSE)
    /\ [][\A t \in Threads :
            ProbeStep(t) =>
                /\ pool_used' \ Held(conn'[t]) = pool_used \ Held(conn[t])
                /\ pc'[t] = "returned" => conn'[t] = None]_vars

\* get_pool_metrics has returned unhealthy from a closed pool, and
\* health_check from a pool whose only connection another thread holds
C26_Witness ==
    \E t, u \in Threads :
        /\ probe[t].op = "get_pool_metrics"
        /\ probe[t].failure = "getconn"
        /\ probe[t].result.kind = "return"
        /\ pool_closed
        /\ probe[u].op = "health_check"
        /\ probe[u].failure = "getconn"
        /\ probe[u].result = Return(FALSE)

====
